---------------------------- MODULE Spec2Model ----------------------------
(***************************************************************************)
(* A model of mediapeek's media-acquisition pipeline:                      *)
(*   - the URL guard (validateUrl, resolveGoogleDriveUrl) of               *)
(*     app/lib/server-utils.ts, which the source tree holds in two copies; *)
(*   - fetchMediaChunk of app/services/media-fetch.server.ts: rewrite,     *)
(*     validate, HEAD/GET probe, ranged content request and the capped     *)
(*     copy loop with the inline raw-deflate unwrap.                       *)
(*                                                                         *)
(* JavaScript strings are sequences of one-character strings, so that      *)
(* startsWith, includes, split, parseInt and the regular expressions are   *)
(* computed character by character as the code computes them.              *)
(***************************************************************************)
EXTENDS Integers, Sequences, FiniteSets, TLC

VARIABLES
    arg,          \* SpecUrl: the URL string a pure function is applied to
    res,          \* SpecUrl: the result of the last application, or NoValue
    pc,           \* fetchMediaChunk: the await point the run is suspended at
    initialUrl,   \* fetchMediaChunk's first argument
    chunkSize,    \* fetchMediaChunk's second argument
    targetUrl,    \* line 31
    isGoogleDrive,\* line 31
    validated,    \* history: the URL string validateUrl has accepted, or NoValue
    steps,        \* history: the pipeline steps begun, in order
    requests,     \* history: the HTTP requests fetch() has issued, in order
    firstHead,    \* history: the response to the HEAD request
    probeGetRes,  \* history: the response to the fallback GET
    headRes,      \* line 39 / 48: the probe response the decisions read
    probeMethod,  \* line 38
    fileSize,     \* line 88
    filename,     \* line 108
    failure,      \* the error thrown to the caller, or NoValue
    offset,       \* line 144
    tempBuffer,   \* line 143, as the sequence of slices written into it
    net,          \* the response body stream behind `reader`
    zip,          \* the rawCompressedStream -> DecompressionStream pipeline
    delivered,    \* history: bytes the reads handed to the copy code
    result,       \* the value fetchMediaChunk returned, or NoValue
    err,          \* line 258: the error the catch block received, or NoValue
    runs,         \* SpecPair: the locals of each of two fetchMediaChunk runs
    heap,         \* SpecPair: the Uint8Array objects allocated, by identity
    request,      \* SpecLoader: the request and the environment of the worker
    loader,       \* SpecLoader: the locals of loader, its response, the log calls
    buffer,       \* SpecPeek: the argument of extractFirstFileFromArchive
    walk          \* SpecPeek: the locals of the ZIP or TAR walk, and its result

urlVars == <<arg, res>>
pairVars == <<runs, heap>>
loaderVars == <<request, loader>>
peekVars == <<buffer, walk>>
fetchVars == <<pc, initialUrl, chunkSize, targetUrl, isGoogleDrive, validated,
               steps, requests, firstHead, probeGetRes, headRes, probeMethod,
               fileSize, filename, failure, offset, tempBuffer, net, zip, delivered,
               result, err>>
vars == <<arg, res, pc, initialUrl, chunkSize, targetUrl, isGoogleDrive,
          validated, steps, requests, firstHead, probeGetRes, headRes,
          probeMethod, fileSize, filename, failure, offset, tempBuffer, net, zip,
          delivered, result, err, runs, heap, request, loader, buffer, walk>>

NoValue == "undefined"

(***************************************************************************)
(* String literals of the source.                                          *)
(***************************************************************************)
S_localhost == <<"l","o","c","a","l","h","o","s","t">>
S_127dot == <<"1","2","7",".">>
S_v6loop == <<":",":","1">>
S_v6loopBr == <<"[",":",":","1","]">>
S_127_0_0_1 == <<"1","2","7",".","0",".","0",".","1">>
S_metadataHost == <<"m","e","t","a","d","a","t","a",".","g","o","o","g","l","e",".","i","n","t","e","r","n","a","l">>
S_169_254_169_254 == <<"1","6","9",".","2","5","4",".","1","6","9",".","2","5","4">>
S_10dot == <<"1","0",".">>
S_192_168dot == <<"1","9","2",".","1","6","8",".">>
S_169_254dot == <<"1","6","9",".","2","5","4",".">>
S_172dot == <<"1","7","2",".">>
S_driveViewPrefix == <<"h","t","t","p","s",":","/","/","d","r","i","v","e",".","g","o","o","g","l","e",".","c","o","m","/","f","i","l","e","/","d","/">>
S_slashView == <<"/","v","i","e","w">>
S_usercontentHost == <<"d","r","i","v","e",".","u","s","e","r","c","o","n","t","e","n","t",".","g","o","o","g","l","e",".","c","o","m">>
S_downloadPrefix == <<"h","t","t","p","s",":","/","/","d","r","i","v","e",".","u","s","e","r","c","o","n","t","e","n","t",".","g","o","o","g","l","e",".","c","o","m","/","d","o","w","n","l","o","a","d","?","i","d","=">>
S_downloadSuffix == <<"&","e","x","p","o","r","t","=","d","o","w","n","l","o","a","d","&","c","o","n","f","i","r","m","=","t">>
S_idChars == <<"-","a","b","c","d","e","f","g","h","i","j","k","l","m","n","o","p","q","r","s","t","u","v","w","x","y","z","A","B","C","D","E","F","G","H","I","J","K","L","M","N","O","P","Q","R","S","T","U","V","W","X","Y","Z","0","1","2","3","4","5","6","7","8","9","_">>
S_digits == <<"0","1","2","3","4","5","6","7","8","9">>

(***************************************************************************)
(* String.prototype and parseInt, over character sequences.                *)
(***************************************************************************)
Range(s) == {s[i] : i \in DOMAIN s}

MinOf(S) == CHOOSE x \in S : \A y \in S : x <= y

\* s.startsWith(p)
StartsWith(s, p) == Len(s) >= Len(p) /\ SubSeq(s, 1, Len(p)) = p

\* whether p occurs in s at (1-based) position i
OccursAt(s, p, i) == i >= 1 /\ i + Len(p) - 1 <= Len(s) /\ SubSeq(s, i, i + Len(p) - 1) = p

\* s.indexOf(p, from), 1-based; 0 when p does not occur
IndexOf(s, p, from) ==
    LET hits == {i \in from..Len(s) : OccursAt(s, p, i)}
    IN  IF hits = {} THEN 0 ELSE MinOf(hits)

\* s.includes(p)
Includes(s, p) == IndexOf(s, p, 1) # 0

\* s.split('.'): the array of the pieces between the dots
RECURSIVE Split(_)
Split(s) ==
    LET i == IndexOf(s, <<".">>, 1)
    IN  IF i = 0 THEN <<s>>
        ELSE <<SubSeq(s, 1, i - 1)>> \o Split(SubSeq(s, i + 1, Len(s)))

DigitValue(c) == CHOOSE d \in 0..9 : S_digits[d + 1] = c

RECURSIVE DecimalValue(_)
DecimalValue(ds) ==
    IF ds = <<>> THEN 0
    ELSE 10 * DecimalValue(SubSeq(ds, 1, Len(ds) - 1)) + DigitValue(ds[Len(ds)])

\* JavaScript numbers as the code sees them: a number, NaN or undefined.
Num(n) == [t |-> "number", v |-> n]
NaN == [t |-> "NaN"]
Undefined == [t |-> "undefined"]
IsNum(x) == x.t = "number"

\* parseInt(s, 10): an optional sign, then the longest run of decimal digits;
\* NaN when there is no digit.
parseInt(s) ==
    LET neg   == Len(s) >= 1 /\ s[1] = "-"
        body  == IF Len(s) >= 1 /\ s[1] \in {"-", "+"} THEN SubSeq(s, 2, Len(s)) ELSE s
        stops == {i \in DOMAIN body : body[i] \notin Range(S_digits)}
        n     == IF stops = {} THEN Len(body) ELSE MinOf(stops) - 1
    IN  IF n = 0 THEN NaN
        ELSE IF neg THEN Num(0 - DecimalValue(SubSeq(body, 1, n)))
        ELSE Num(DecimalValue(SubSeq(body, 1, n)))

(***************************************************************************)
(* new URL(url).hostname, for the URLs of the model: scheme "://" host,    *)
(* the host ending at the first "/", "?" or "#".  The model's URLs carry   *)
(* no userinfo, no port, no upper-case host and no non-canonical IPv4      *)
(* form, which the platform's parser would normalise before the policy     *)
(* sees the hostname.  A string with no "://" after a scheme does not      *)
(* parse: new URL throws a TypeError.                                      *)
(***************************************************************************)
UrlParses(url) ==
    LET i == IndexOf(url, <<":","/","/">>, 1)
    IN  /\ i > 1
        /\ \A k \in 1..(i - 1) : url[k] \notin {"/", "?", "#", ":"}
        /\ i + 3 <= Len(url)
        /\ url[i + 3] \notin {"/", "?", "#"}

Hostname(url) ==
    LET i     == IndexOf(url, <<":","/","/">>, 1)
        ends  == {k \in (i + 3)..Len(url) : url[k] \in {"/", "?", "#"}}
        last  == IF ends = {} THEN Len(url) ELSE MinOf(ends) - 1
    IN  SubSeq(url, i + 3, last)

(***************************************************************************)
(* server-utils.ts, first copy (lines 1-108).                              *)
(***************************************************************************)
LOCALHOST_IPS == {S_v6loop, S_127_0_0_1}
META_DATA_HOSTS == {S_metadataHost, S_169_254_169_254}

\* validateUrl without the checks of the private ranges
validateUrl_noPrivate(url) ==
    IF ~UrlParses(url) THEN "TypeError"
    ELSE
    LET host == Hostname(url)
    IN  IF host = S_localhost \/ StartsWith(host, S_127dot) \/ host \in LOCALHOST_IPS
        THEN "local"
        ELSE IF host \in META_DATA_HOSTS THEN "metadata"
        ELSE "ok"

\* The outcome of validateUrl: "ok", or the kind of error it throws.
validateUrl(url) ==
    IF ~UrlParses(url) THEN "TypeError"
    ELSE
    LET host == Hostname(url)
    IN  IF host = S_localhost \/ StartsWith(host, S_127dot) \/ host \in LOCALHOST_IPS
        THEN "local"
        ELSE IF host \in META_DATA_HOSTS THEN "metadata"
        ELSE IF StartsWith(host, S_10dot) \/ StartsWith(host, S_192_168dot)
        THEN "private"
        ELSE IF StartsWith(host, S_172dot)
        THEN LET secondOctet == parseInt(Split(host)[2])
             IN  IF IsNum(secondOctet) /\ secondOctet.v >= 16 /\ secondOctet.v <= 31
                 THEN "private" ELSE "ok"
        ELSE "ok"

(***************************************************************************)
(* server-utils.ts, second copy (lines 110-198).                           *)
(***************************************************************************)
validateUrl2(url) ==
    IF ~UrlParses(url) THEN "TypeError"
    ELSE
    LET host == Hostname(url)
        o2   == parseInt(Split(host)[2])
    IN  IF host = S_localhost \/ StartsWith(host, S_127dot)
           \/ host = S_v6loopBr \/ host = S_v6loop
        THEN "local"
        ELSE IF \/ StartsWith(host, S_10dot)
                \/ StartsWith(host, S_192_168dot)
                \/ StartsWith(host, S_169_254dot)
                \/ (StartsWith(host, S_172dot) /\ IsNum(o2) /\ o2.v >= 16 /\ o2.v <= 31)
        THEN "private"
        ELSE IF host = S_metadataHost \/ host = S_169_254_169_254 THEN "metadata"
        ELSE "ok"

(***************************************************************************)
(* resolveGoogleDriveUrl (lines 63-75; the second copy, lines 139-153, is  *)
(* the same function).  GOOGLE_DRIVE_REGEX is unanchored:                  *)
(*   https://drive.google.com/file/d/([-a-zA-Z0-9_]+)/view                 *)
(* "/" is no identifier character, so a match at i takes the whole run of  *)
(* identifier characters after the prefix and needs "/view" right after.   *)
(***************************************************************************)
IdRunEnd(url, from) ==
    LET stops == {k \in from..Len(url) : url[k] \notin Range(S_idChars)}
    IN  IF stops = {} THEN Len(url) ELSE MinOf(stops) - 1

DriveMatchAt(url, i) ==
    LET from == i + Len(S_driveViewPrefix)
        to   == IdRunEnd(url, from)
    IN  /\ OccursAt(url, S_driveViewPrefix, i)
        /\ to >= from
        /\ OccursAt(url, S_slashView, to + 1)

\* The leftmost match as <<match[1]>>, or <<>> for null
GOOGLE_DRIVE_REGEX(url) ==
    LET hits == {i \in DOMAIN url : DriveMatchAt(url, i)}
    IN  IF hits = {} THEN <<>>
        ELSE LET i    == MinOf(hits)
                 from == i + Len(S_driveViewPrefix)
             IN  <<SubSeq(url, from, IdRunEnd(url, from))>>

resolveGoogleDriveUrl(url) ==
    LET match == GOOGLE_DRIVE_REGEX(url)
    IN  IF match # <<>>
        THEN [url |-> S_downloadPrefix \o match[1] \o S_downloadSuffix, isGoogleDrive |-> TRUE]
        ELSE IF Includes(url, S_usercontentHost)
        THEN [url |-> url, isGoogleDrive |-> TRUE]
        ELSE [url |-> url, isGoogleDrive |-> FALSE]

(***************************************************************************)
(* The URLs the pure functions are applied to.                             *)
(***************************************************************************)
S_http == <<"h","t","t","p",":","/","/">>
S_videoPath == <<"/","v",".","m","k","v">>
S_exampleHost == <<"e","x","a","m","p","l","e",".","c","o","m">>
S_172example == <<"1","7","2",".","e","x","a","m","p","l","e",".","c","o","m">>
S_localhostSub == <<"l","o","c","a","l","h","o","s","t",".","e","x","a","m","p","l","e",".","c","o","m">>
S_10_1_2_3 == <<"1","0",".","1",".","2",".","3">>
S_192_168_0_5 == <<"1","9","2",".","1","6","8",".","0",".","5">>
S_notAUrl == <<"n","o","t","-","a","-","u","r","l">>
S_ABC123 == <<"A","B","C","1","2","3">>
S_x_Y_9 == <<"x","-","Y","_","9">>
S_usp == <<"?","u","s","p","=","s","h","a","r","i","n","g">>
S_edit == <<"/","e","d","i","t">>
S_refQuery == <<"/","?","r","e","f","=">>
S_idEq == <<"i","d","=">>

FirstOctets == {<<"1","0">>, <<"1","2","7">>, <<"1","6","9">>, <<"1","7","2">>,
                <<"1","9","2">>, <<"8">>}
SecondOctets == {<<"0">>, <<"1","5">>, <<"1","6">>, <<"2","0">>, <<"3","1">>,
                 <<"3","2">>, <<"1","6","8">>, <<"2","5","4">>}
ThirdOctets == {<<"0">>, <<"1","6","9">>}
FourthOctets == {<<"1">>, <<"2","5","4">>}

IPv4Hosts == {a \o <<".">> \o b \o <<".">> \o c \o <<".">> \o d :
                a \in FirstOctets, b \in SecondOctets, c \in ThirdOctets, d \in FourthOctets}

NamedHosts == {S_localhost, S_metadataHost, S_v6loopBr, S_exampleHost,
               S_usercontentHost, S_172example, S_localhostSub, S_10_1_2_3,
               S_192_168_0_5}

Hosts == IPv4Hosts \cup NamedHosts

DriveView(id) == S_driveViewPrefix \o id \o S_slashView

DriveUrls == {
    DriveView(S_ABC123),
    DriveView(S_ABC123) \o S_usp,
    DriveView(S_x_Y_9),
    \* plain http: the pattern wants https
    SubSeq(S_http, 1, 4) \o SubSeq(DriveView(S_ABC123), 6, Len(DriveView(S_ABC123))),
    \* an empty identifier, and a link that is not a view link
    DriveView(<<>>),
    S_driveViewPrefix \o S_ABC123 \o S_edit,
    \* the direct-download form
    S_downloadPrefix \o S_ABC123 \o S_downloadSuffix,
    \* another host, with the provider's names only in its query string
    S_http \o S_exampleHost \o S_refQuery \o S_usercontentHost,
    S_http \o S_exampleHost \o S_refQuery \o DriveView(S_ABC123),
    S_notAUrl }

Urls == {S_http \o h \o S_videoPath : h \in Hosts} \cup DriveUrls

(***************************************************************************)
(* More of the platform, for the probe: lower-casing (the /i flag),        *)
(* decodeURIComponent for escapes of printable ASCII (an escape of a byte  *)
(* above 7F starts a multi-byte sequence, which the model's inputs do not  *)
(* use), and the response headers as optional strings: <<>> for a header   *)
(* that is absent (headers.get gives null), <<s>> for one present.         *)
(***************************************************************************)
S_upper == <<"A","B","C","D","E","F","G","H","I","J","K","L","M","N","O","P","Q","R","S","T","U","V","W","X","Y","Z">>
S_lower == <<"a","b","c","d","e","f","g","h","i","j","k","l","m","n","o","p","q","r","s","t","u","v","w","x","y","z">>
S_hex == <<"0","1","2","3","4","5","6","7","8","9","a","b","c","d","e","f">>
\* The printable ASCII characters, 20 to 7E (5C and 60 are written out)
S_ascii == <<" ","!","\"","#","$","%","&","'","(",")","*","+",",","-",".","/","0","1","2","3","4","5","6","7","8","9",":",";","<","=",">","?","@","A","B","C","D","E","F","G","H","I","J","K","L","M","N","O","P","Q","R","S","T","U","V","W","X","Y","Z","[","backslash","]","^","_","backtick","a","b","c","d","e","f","g","h","i","j","k","l","m","n","o","p","q","r","s","t","u","v","w","x","y","z","{","|","}","~">>

LowerChar(c) ==
    IF c \in Range(S_upper)
    THEN S_lower[CHOOSE i \in DOMAIN S_upper : S_upper[i] = c]
    ELSE c

ToLower(s) == [i \in DOMAIN s |-> LowerChar(s[i])]

IsHex(c) == LowerChar(c) \in Range(S_hex)
HexValue(c) == (CHOOSE i \in DOMAIN S_hex : S_hex[i] = LowerChar(c)) - 1

\* whether decodeURIComponent(s) throws a URIError
DecodeThrows(s) ==
    \E i \in DOMAIN s :
        /\ s[i] = "%"
        /\ ~(i + 2 <= Len(s) /\ IsHex(s[i + 1]) /\ IsHex(s[i + 2]))

RECURSIVE decodeURIComponent(_)
decodeURIComponent(s) ==
    IF s = <<>> THEN <<>>
    ELSE IF s[1] = "%"
    THEN <<S_ascii[16 * HexValue(s[2]) + HexValue(s[3]) - 31]>>
            \o decodeURIComponent(SubSeq(s, 4, Len(s)))
    ELSE <<s[1]>> \o decodeURIComponent(Tail(s))

\* The end of the longest run of characters outside `stop` starting at from
RunEnd(s, from, stop) ==
    LET stops == {k \in from..Len(s) : s[k] \in stop}
    IN  IF stops = {} THEN Len(s) ELSE MinOf(stops) - 1

(***************************************************************************)
(* fetchMediaChunk: the probe's decisions (lines 58-132), as functions of  *)
(* the probe response r = [status, contentType, contentRange,              *)
(* contentLength, contentDisposition].                                     *)
(***************************************************************************)
S_textHtml == <<"t","e","x","t","/","h","t","m","l">>
S_filenameStar == <<"f","i","l","e","n","a","m","e","*","=","u","t","f","-","8","'","'">>
S_filenameEq == <<"f","i","l","e","n","a","m","e","=">>

\* line 60: contentType?.includes('text/html')
IsHtml(r) == r.contentType # <<>> /\ Includes(r.contentType[1], S_textHtml)

\* Response.ok
Ok(r) == r.status >= 200 /\ r.status <= 299

NoFailure == [kind |-> "none"]

\* A classification that lets every response pass
ProbeFailure_none(r, drive) == NoFailure

\* A classification that looks at the status before the content type
ProbeFailure_statusFirst(r, drive) ==
    IF ~Ok(r)
    THEN IF r.status = 404 THEN [kind |-> "NotFound"]
         ELSE IF r.status = 403 THEN [kind |-> "AccessDenied"]
         ELSE [kind |-> "UnableToAccess", status |-> r.status]
    ELSE IF IsHtml(r)
    THEN IF drive THEN [kind |-> "RateLimited"] ELSE [kind |-> "Webpage"]
    ELSE NoFailure

\* A classification with no message of its own for 403
ProbeFailure_no403(r, drive) ==
    IF IsHtml(r)
    THEN IF drive THEN [kind |-> "RateLimited"] ELSE [kind |-> "Webpage"]
    ELSE IF ~Ok(r)
    THEN IF r.status = 404 THEN [kind |-> "NotFound"]
         ELSE [kind |-> "UnableToAccess", status |-> r.status]
    ELSE NoFailure

\* lines 60-85: the error the classification throws, or NoFailure
ProbeFailure(r, drive) ==
    IF IsHtml(r)
    THEN IF drive THEN [kind |-> "RateLimited"] ELSE [kind |-> "Webpage"]
    ELSE IF ~Ok(r)
    THEN IF r.status = 404 THEN [kind |-> "NotFound"]
         ELSE IF r.status = 403 THEN [kind |-> "AccessDenied"]
         ELSE [kind |-> "UnableToAccess", status |-> r.status]
    ELSE NoFailure

\* line 91: contentRange.match(/\/(\d+)$/), as <<match[1]>> or <<>>
ContentRangeTotal(cr) ==
    LET hits == {i \in DOMAIN cr :
                    /\ cr[i] = "/"
                    /\ i < Len(cr)
                    /\ \A k \in (i + 1)..Len(cr) : cr[k] \in Range(S_digits)}
    IN  IF hits = {} THEN <<>> ELSE <<SubSeq(cr, MinOf(hits) + 1, Len(cr))>>

\* !fileSize
Falsy(x) == x.t = "undefined" \/ x.t = "NaN" \/ (x.t = "number" /\ x.v = 0)

\* lines 88-103
FileSizeOf(r) ==
    LET fromRange ==
            IF r.contentRange # <<>> /\ r.contentRange[1] # <<>>
               /\ ContentRangeTotal(r.contentRange[1]) # <<>>
            THEN parseInt(ContentRangeTotal(r.contentRange[1])[1])
            ELSE Undefined
    IN  IF Falsy(fromRange)
        THEN IF r.contentLength # <<>> /\ r.contentLength[1] # <<>>
             THEN parseInt(r.contentLength[1])
             ELSE fromRange
        ELSE fromRange

\* line 111: contentDisposition.match(/filename\*=UTF-8''([^;]+)/i)
StarMatch(cd) ==
    LET low  == ToLower(cd)
        hits == {i \in DOMAIN cd :
                    /\ OccursAt(low, S_filenameStar, i)
                    /\ RunEnd(cd, i + Len(S_filenameStar), {";"}) >= i + Len(S_filenameStar)}
    IN  IF hits = {} THEN <<>>
        ELSE LET from == MinOf(hits) + Len(S_filenameStar)
             IN  <<SubSeq(cd, from, RunEnd(cd, from, {";"}))>>

\* line 119: contentDisposition.match(/filename="?([^";]+)"?/i)
NormalMatch(cd) ==
    LET low  == ToLower(cd)
        \* where the group starts for a match at i: after an optional quote
        Start(i) == LET a == i + Len(S_filenameEq)
                    IN  IF a <= Len(cd) /\ cd[a] = "\"" THEN a + 1 ELSE a
        hits == {i \in DOMAIN cd :
                    /\ OccursAt(low, S_filenameEq, i)
                    /\ RunEnd(cd, Start(i), {"\"", ";"}) >= Start(i)}
    IN  IF hits = {} THEN <<>>
        ELSE LET from == Start(MinOf(hits))
             IN  <<SubSeq(cd, from, RunEnd(cd, from, {"\"", ";"}))>>

\* lines 108-124
FilenameOf(r, url) ==
    IF r.contentDisposition = <<>> \/ r.contentDisposition[1] = <<>> THEN url
    ELSE LET cd == r.contentDisposition[1]
         IN  IF StarMatch(cd) # <<>>
             THEN IF DecodeThrows(StarMatch(cd)[1]) THEN url
                  ELSE decodeURIComponent(StarMatch(cd)[1])
             ELSE IF NormalMatch(cd) # <<>> THEN NormalMatch(cd)[1]
             ELSE url

\* Math.min over JavaScript numbers
MathMin(a, b) ==
    IF ~IsNum(a) \/ ~IsNum(b) THEN NaN
    ELSE IF a.v <= b.v THEN a ELSE b

\* A range end that is not clamped to the total size
FetchEnd_noClamp(size, chunk) == Num(chunk - 1)

\* lines 129-132
FetchEnd(size, chunk) ==
    IF size.t # "undefined"
    THEN MathMin(Num(chunk - 1), IF IsNum(size) THEN Num(size.v - 1) ELSE NaN)
    ELSE Num(chunk - 1)

(***************************************************************************)
(* fetchMediaChunk: the inputs of a run.                                   *)
(***************************************************************************)
SAFE_LIMIT == 10 * 1024 * 1024
HalfLimit == SAFE_LIMIT \div 2

\* The most chunks a response body delivers, and the most the decompressor emits
MaxReads == 3

S_exampleUrl == S_http \o S_exampleHost \o S_videoPath
S_loopbackUrl == S_http \o S_127_0_0_1 \o S_videoPath

PipelineUrls == {S_exampleUrl, DriveView(S_ABC123), S_loopbackUrl, S_notAUrl}

\* chunkSize: a small cap, and the default of line 26
ChunkSizes == {10, 10 * 1024 * 1024}

S_ctHtml == <<"t","e","x","t","/","h","t","m","l",";"," ","c","h","a","r","s","e","t","=","u","t","f","-","8">>
S_ctMp4 == <<"v","i","d","e","o","/","m","p","4">>
S_cr50 == <<"b","y","t","e","s"," ","0","-","0","/","5","0">>
S_crStar == <<"b","y","t","e","s"," ","0","-","0","/","*">>
S_cr0 == <<"b","y","t","e","s"," ","0","-","0","/","0">>
S_cl0 == <<"0">>
S_cl20M == <<"2","0","9","7","1","5","2","0">>
S_cdPlain == <<"a","t","t","a","c","h","m","e","n","t",";"," ","f","i","l","e","n","a","m","e","=","\"","m","o","v","i","e",".","m","k","v","\"">>
S_cdStar == <<"a","t","t","a","c","h","m","e","n","t",";"," ","f","i","l","e","n","a","m","e","*","=","U","T","F","-","8","'","'","M","y","%","2","0","F","i","l","e",".","m","k","v">>

Statuses == {200, 206, 403, 404, 405, 500}
ContentTypes == {<<>>, <<S_ctHtml>>, <<S_ctMp4>>}
ContentRanges == {<<>>, <<S_cr50>>, <<S_crStar>>, <<S_cr0>>}
ContentLengths == {<<>>, <<S_cl0>>, <<S_cl20M>>}
ContentDispositions == {<<>>, <<S_cdPlain>>, <<S_cdStar>>}

Resp(st, ct, cr, cl, cd) ==
    [status |-> st, contentType |-> ct, contentRange |-> cr,
     contentLength |-> cl, contentDisposition |-> cd]

NoResponse == [status |-> 0]

\* What a server may answer to a probe: every status with every content
\* type; for the 2xx media answers every combination of the two size
\* headers, and every form of the filename header; a 405 that carries
\* headers of its own.
ProbeResponses ==
    {Resp(st, ct, <<>>, <<S_cl20M>>, <<>>) : st \in Statuses, ct \in ContentTypes}
    \cup {Resp(st, <<S_ctMp4>>, cr, cl, <<>>) :
            st \in {200, 206}, cr \in ContentRanges, cl \in ContentLengths}
    \cup {Resp(200, <<S_ctMp4>>, <<>>, <<>>, cd) : cd \in ContentDispositions}
    \cup {Resp(405, <<S_ctMp4>>, <<S_cr50>>, <<S_cl0>>, <<S_cdPlain>>)}

Request(method, url, range) == [method |-> method, url |-> url, range |-> range]

(***************************************************************************)
(* fetchMediaChunk, lines 28-140: rewrite, validate, probe, and the        *)
(* content request.  pc names the await the run is suspended at; the       *)
(* synchronous statements before the first await are taken one at a time.  *)
(***************************************************************************)
\* first: history, the first chunk the body delivered; fed: history, what
\* rawCompressedStream has enqueued for the decompressor, in order
NoChunk == [len |-> 0]
NoStream == [open |-> FALSE, reads |-> 0, ended |-> FALSE, errored |-> FALSE,
             cancelled |-> FALSE, first |-> NoChunk]
NoPipeline == [active |-> FALSE, detected |-> FALSE, src |-> "none", outs |-> 0,
               fed |-> <<>>]
NotReturned == [returned |-> FALSE]
NotCaught == [caught |-> FALSE]

\* The variables of the other specifications, at rest
PairIdle == runs = <<>> /\ heap = <<>>
LoaderIdle == request = [enabled |-> FALSE] /\ loader = [at |-> "idle"]
PeekIdle == buffer = <<>> /\ walk = [fn |-> "none"]

FetchIdle ==
    /\ targetUrl = <<>>
    /\ isGoogleDrive = FALSE
    /\ validated = <<>>
    /\ steps = <<>>
    /\ requests = <<>>
    /\ firstHead = NoResponse
    /\ probeGetRes = NoResponse
    /\ headRes = NoResponse
    /\ probeMethod = NoValue
    /\ fileSize = Undefined
    /\ filename = <<>>
    /\ failure = NoFailure
    /\ offset = 0
    /\ tempBuffer = <<>>
    /\ net = NoStream
    /\ zip = NoPipeline
    /\ delivered = 0
    /\ result = NotReturned
    /\ err = NotCaught

Init ==
    /\ arg = <<>>
    /\ res = [fn |-> "none"]
    /\ pc = "start"
    /\ initialUrl \in PipelineUrls
    /\ chunkSize \in ChunkSizes
    /\ FetchIdle
    /\ PairIdle /\ LoaderIdle /\ PeekIdle

\* line 31
Rewrite ==
    /\ pc = "start"
    /\ targetUrl' = resolveGoogleDriveUrl(initialUrl).url
    /\ isGoogleDrive' = resolveGoogleDriveUrl(initialUrl).isGoogleDrive
    /\ steps' = Append(steps, "rewrite")
    /\ pc' = "rewritten"
    /\ UNCHANGED <<pairVars, loaderVars, peekVars, arg, res, initialUrl, chunkSize, validated, requests,
                   firstHead, probeGetRes, headRes, probeMethod, fileSize, filename,
                   failure, offset, tempBuffer, net, zip, delivered, result, err>>

\* A validation of the URL as the caller gave it
ValidatedSubject_initial(initial, target) == initial

\* The string line 34 hands to validateUrl
ValidatedSubject(initial, target) == target

\* The import of line 4 resolves to one of the two copies of server-utils.ts
ValidateOutcome(copy, url) ==
    IF copy = 1 THEN validateUrl(url) ELSE validateUrl2(url)

\* line 34
Validate ==
    /\ pc = "rewritten"
    /\ steps' = Append(steps, "validate")
    /\ \E copy \in {1, 2} :
         LET subject == ValidatedSubject(initialUrl, targetUrl)
             outcome == ValidateOutcome(copy, subject)
         IN  IF outcome = "ok"
             THEN /\ validated' = <<subject>>
                  /\ pc' = "validated"
                  /\ failure' = failure
             ELSE /\ validated' = validated
                  /\ pc' = "failed"
                  /\ failure' = IF outcome = "TypeError"
                                THEN [kind |-> "TypeError"]
                                ELSE [kind |-> "InvalidURL", reason |-> outcome]
    /\ UNCHANGED <<pairVars, loaderVars, peekVars, arg, res, initialUrl, chunkSize, targetUrl, isGoogleDrive,
                   requests, firstHead, probeGetRes, headRes, probeMethod,
                   fileSize, filename, offset, tempBuffer, net, zip, delivered, result, err>>

\* A run that goes back to the probe when fetch() rejects
OnFetchRejected_retry(resume) == resume

\* The await point after fetch() rejects at lines 39, 48 or 135: nothing in
\* fetchMediaChunk catches the rejection, the run ends with it
OnFetchRejected(resume) == "failed"

\* lines 37-43: the HEAD request is issued
SendHead ==
    /\ pc = "validated"
    /\ probeMethod' = "HEAD"
    /\ requests' = Append(requests, Request("HEAD", targetUrl, <<>>))
    /\ steps' = Append(steps, "probe")
    /\ pc' = "awaitHead"
    /\ UNCHANGED <<pairVars, loaderVars, peekVars, arg, res, initialUrl, chunkSize, targetUrl, isGoogleDrive,
                   validated, firstHead, probeGetRes, headRes, fileSize,
                   filename, failure, offset, tempBuffer, net, zip, delivered, result, err>>

\* A fallback on every error status
NeedsGetFallback_anyError(r) == r.status >= 400

\* line 46
NeedsGetFallback(r) == r.status = 405

\* The response the decisions of lines 58-124 read, given the probe response
\* held so far and the one that just arrived
AdoptResponse(held, arrived) == arrived

\* lines 58-140 on the final probe response r: either an error is thrown, or
\* the size and the filename are decided and the content request is issued.
Decide(r, reqs) ==
    LET f == ProbeFailure(r, isGoogleDrive)
    IN  IF f # NoFailure
        THEN /\ failure' = f
             /\ pc' = "failed"
             /\ requests' = reqs
             /\ UNCHANGED <<fileSize, filename, steps>>
        ELSE /\ failure' = failure
             /\ fileSize' = FileSizeOf(r)
             /\ filename' = FilenameOf(r, targetUrl)
             /\ requests' = Append(reqs, Request("GET", targetUrl,
                                <<FetchEnd(FileSizeOf(r), chunkSize)>>))
             /\ steps' = Append(steps, "fetch")
             /\ pc' = "awaitContent"

\* lines 39-56: the HEAD response arrives (or fetch rejects)
RecvHead ==
    /\ pc = "awaitHead"
    /\ \/ /\ pc' = OnFetchRejected("validated")
          /\ failure' = [kind |-> "FetchRejected"]
          /\ UNCHANGED <<firstHead, headRes, probeMethod, requests, fileSize,
                         filename, steps>>
       \/ \E r \in ProbeResponses :
            /\ firstHead' = r
            /\ headRes' = AdoptResponse(NoResponse, r)
            /\ IF NeedsGetFallback(r)
               THEN /\ probeMethod' = "GET"
                    /\ requests' = Append(requests,
                                     Request("GET", targetUrl, <<Num(0)>>))
                    /\ pc' = "awaitProbeGet"
                    /\ UNCHANGED <<fileSize, filename, failure, steps>>
               ELSE /\ probeMethod' = probeMethod
                    /\ Decide(headRes', requests)
    /\ UNCHANGED <<pairVars, loaderVars, peekVars, arg, res, initialUrl, chunkSize, targetUrl, isGoogleDrive,
                   validated, probeGetRes, offset, tempBuffer, net, zip,
                   delivered, result, err>>

\* lines 48-56: the response to the fallback GET arrives (or fetch rejects)
RecvProbeGet ==
    /\ pc = "awaitProbeGet"
    /\ \/ /\ pc' = OnFetchRejected("validated")
          /\ failure' = [kind |-> "FetchRejected"]
          /\ UNCHANGED <<probeGetRes, headRes, requests, fileSize, filename,
                         steps>>
       \/ \E r \in ProbeResponses :
            /\ probeGetRes' = r
            /\ headRes' = AdoptResponse(headRes, r)
            /\ Decide(headRes', requests)
    /\ UNCHANGED <<pairVars, loaderVars, peekVars, arg, res, initialUrl, chunkSize, targetUrl, isGoogleDrive,
                   validated, firstHead, probeMethod, offset, tempBuffer, net,
                   zip, delivered, result, err>>

(***************************************************************************)
(* fetchMediaChunk, lines 142-286: the capped copy.  A body chunk is its   *)
(* length and the bytes of it the code inspects (offsets 0-3, 8-9, 26-29); *)
(* tempBuffer is the sequence of slices written, each the first `len`      *)
(* bytes of the idx-th chunk read from the raw body or from the            *)
(* decompressor.                                                           *)
(***************************************************************************)
ZIP_SIG == <<80, 75, 3, 4>>

HeaderOffsets == {0, 1, 2, 3, 8, 9, 26, 27, 28, 29}

\* A Matroska file starts 1A 45 DF A3
MkvHeader == [i \in HeaderOffsets |->
                 CASE i = 0 -> 26 [] i = 1 -> 69 [] i = 2 -> 223 [] i = 3 -> 163
                 [] OTHER -> 0]

\* A ZIP local file header with the given method and name/extra lengths
ZipHeader(method, nameLen, extraLen) ==
    [i \in HeaderOffsets |->
        CASE i \in 0..3 -> ZIP_SIG[i + 1]
        []   i = 8  -> method % 256
        []   i = 9  -> method \div 256
        []   i = 26 -> nameLen % 256
        []   i = 27 -> nameLen \div 256
        []   i = 28 -> extraLen % 256
        []   i = 29 -> extraLen \div 256]

HeaderKinds == {MkvHeader, ZipHeader(0, 9, 0), ZipHeader(8, 0, 0), ZipHeader(8, 9, 0)}

\* The lengths of the first chunk: around the 30-byte header and the data
\* offset, and around the cap
ChunkLens == {30, 31, 40, HalfLimit, SAFE_LIMIT, SAFE_LIMIT + 1}

\* The lengths of the chunks the copy loop reads, whose bytes are not
\* inspected: a short one, one that fills the buffer with another like it,
\* one that overflows it
LaterLens == {40, HalfLimit, SAFE_LIMIT + 1}

Chunks == [len : ChunkLens, b : HeaderKinds]

\* What a failed read's message is to line 264: one that includes
\* 'incomplete data' or 'unexpected end of file', or any other
ErrorMessages == {"incomplete data", "unexpected end of file", "other"}

\* lines 264-265: the message is one of the decompressor's for a stream
\* that ended early
IsIncompleteData(msg) == msg \in {"incomplete data", "unexpected end of file"}

\* lines 165-172
HasZipSignature(c) ==
    /\ c.len > 30
    /\ c.b[0] = ZIP_SIG[1] /\ c.b[1] = ZIP_SIG[2]
    /\ c.b[2] = ZIP_SIG[3] /\ c.b[3] = ZIP_SIG[4]

\* lines 174-179: isZipCompressed after the detection
IsZipCompressed(c) == HasZipSignature(c) /\ c.b[8] + 256 * c.b[9] = 8

\* lines 182-184
DataOffset(c) == 30 + (c.b[26] + 256 * c.b[27]) + (c.b[28] + 256 * c.b[29])

\* line 187: the decompression pipeline replaces the reader
Unwraps(c) == IsZipCompressed(c) /\ c.len > DataOffset(c)

\* The whole first chunk, local header included
DataInFirstChunk_whole(c) == [idx |-> 1, from |-> 0]

\* line 188: firstChunk.subarray(dataOffset), which start() enqueues
DataInFirstChunk(c) == [idx |-> 1, from |-> DataOffset(c)]

\* lines 225 and 247: the chunk does not fit
Overflows(len, spaceLeft) == len > spaceLeft

\* A copy that does not clip the chunk to the space left
CopyLen_whole(len, spaceLeft) == len

\* A copy that drops the chunk that does not fit
CopyLen_dropOverflow(len, spaceLeft) ==
    IF len > spaceLeft THEN 0 ELSE len

\* lines 226-227, 234-235, 248-249, 253-254: the bytes copied
CopyLen(len, spaceLeft) == IF Overflows(len, spaceLeft) THEN spaceLeft ELSE len

\* The first `len` bytes of the idx-th chunk (of `size` bytes) that `origin`
\* delivered, written at position `at`
Slice(at, origin, idx, len, size) ==
    [at |-> at, from |-> origin, idx |-> idx, len |-> len, size |-> size]

\* A write that always starts at the beginning of the buffer
Written_atStart(buf, at, origin, idx, len, size) ==
    IF len = 0 THEN buf ELSE Append(buf, Slice(0, origin, idx, len, size))

\* tempBuffer.set(chunk.subarray(0, len), at): a slice of no bytes writes
\* nothing
Written(buf, at, origin, idx, len, size) ==
    IF len = 0 THEN buf ELSE Append(buf, Slice(at, origin, idx, len, size))

\* lines 276-285
Return(off) ==
    /\ pc' = "done"
    /\ result' = [returned |-> TRUE, length |-> off, filename |-> filename,
                  fileSize |-> fileSize]
    /\ failure' = failure

\* A rule that swallows the condition with an empty buffer too
Swallows_anyOffset(msg, off) == IsIncompleteData(msg)

\* lines 262-266
Swallows(msg, off) == off > 0 /\ IsIncompleteData(msg)

\* What the message of a thrown read error begins with: line 271 puts
\* 'Stream reading failed: ' before the message of an error the catch block
\* received; a rejection of the read of line 155 reaches the caller as it is
MessagePrefix(f) ==
    IF f.kind = "StreamReadingFailed" THEN "Stream reading failed: " ELSE ""

\* lines 258-273
Catch(msg, off) ==
    IF Swallows(msg, off)
    THEN Return(off)
    ELSE /\ pc' = "failed"
         /\ failure' = [kind |-> "StreamReadingFailed", message |-> msg]
         /\ result' = result

\* lines 135-155: the content response arrives (or fetch rejects); the
\* buffer is allocated and the first read is issued.  headRes is not read
\* after line 109: the model forgets the probe's responses here.
RecvContent ==
    /\ pc = "awaitContent"
    /\ \/ /\ pc' = OnFetchRejected("validated")
          /\ failure' = [kind |-> "FetchRejected"]
          /\ net' = net
       \/ \* response.body is null
          /\ pc' = "failed"
          /\ failure' = [kind |-> "NoBody"]
          /\ net' = net
       \/ /\ pc' = "awaitFirstRead"
          /\ failure' = failure
          /\ net' = [NoStream EXCEPT !.open = TRUE]
    /\ offset' = 0
    /\ tempBuffer' = <<>>
    /\ firstHead' = NoResponse
    /\ probeGetRes' = NoResponse
    /\ headRes' = NoResponse
    /\ UNCHANGED <<pairVars, loaderVars, peekVars, arg, res, initialUrl, chunkSize, targetUrl, isGoogleDrive,
                   validated, steps, requests, probeMethod, fileSize,
                   filename, zip, delivered, result, err>>

\* lines 155-242: the first read resolves; ZIP detection; the first chunk is
\* copied unless the pipeline consumed it; then the run returns, or waits for
\* the next read.
FirstRead ==
    /\ pc = "awaitFirstRead"
    /\ \/ \* the read rejects, outside the try block
          \E msg \in ErrorMessages :
            /\ pc' = "failed"
            /\ failure' = [kind |-> "ReadRejected", message |-> msg]
            /\ net' = [net EXCEPT !.errored = TRUE]
            /\ UNCHANGED <<offset, tempBuffer, zip, delivered, result>>
       \/ \* done: there is no first chunk
          /\ net' = [net EXCEPT !.ended = TRUE]
          /\ pc' = "loop"
          /\ UNCHANGED <<offset, tempBuffer, zip, delivered, result, failure>>
       \/ \E c \in Chunks :
            /\ net.reads < MaxReads
            /\ IF Unwraps(c)
               THEN /\ zip' = [active |-> TRUE, detected |-> TRUE,
                               src |-> "open", outs |-> 0,
                               fed |-> <<DataInFirstChunk(c)>>]
                    /\ net' = [net EXCEPT !.reads = 1, !.first = c]
                    /\ pc' = "loop"
                    /\ UNCHANGED <<offset, tempBuffer, delivered, result, failure>>
               ELSE LET spaceLeft == SAFE_LIMIT - offset
                        n == CopyLen(c.len, spaceLeft)
                    IN  /\ zip' = [zip EXCEPT !.detected = IsZipCompressed(c)]
                        /\ tempBuffer' = Written(tempBuffer, offset, "body", 1, n, c.len)
                        /\ offset' = offset + n
                        /\ delivered' = delivered + c.len
                        /\ net' = [net EXCEPT
                                     !.reads = 1,
                                     !.first = c,
                                     !.cancelled = Overflows(c.len, spaceLeft)
                                                   /\ ~IsZipCompressed(c)]
                        /\ IF offset' < SAFE_LIMIT
                           THEN /\ pc' = "loop"
                                /\ UNCHANGED <<result, failure>>
                           ELSE Return(offset')
    /\ UNCHANGED <<pairVars, loaderVars, peekVars, arg, res, initialUrl, chunkSize, targetUrl, isGoogleDrive,
                   validated, steps, requests, firstHead, probeGetRes, headRes,
                   probeMethod, fileSize, filename, err>>

\* finalReader.cancel(), lines 250 and 205-207: cancelling the pipeline's
\* output errors the decompressor's input, which makes the pipe cancel
\* rawCompressedStream, whose cancel() cancels the body reader.
Cancel ==
    IF zip.active
    THEN /\ zip' = [zip EXCEPT !.src = "cancelled", !.outs = @ + 1]
         /\ net' = [net EXCEPT !.cancelled = @ \/ zip.src = "open"]
    ELSE /\ zip' = zip
         /\ net' = [net EXCEPT !.cancelled = TRUE, !.reads = @ + 1]

\* lines 245-255 on a chunk of `len` bytes read from finalReader
CopyChunk(len) ==
    LET spaceLeft == SAFE_LIMIT - offset
        n == CopyLen(len, spaceLeft)
        origin == IF zip.active THEN "inflate" ELSE "body"
        idx == IF zip.active THEN zip.outs + 1 ELSE net.reads + 1
    IN  /\ tempBuffer' = Written(tempBuffer, offset, origin, idx, n, len)
        /\ offset' = offset + n
        /\ delivered' = delivered + len
        /\ IF Overflows(len, spaceLeft)
           THEN Cancel /\ Return(offset')
           ELSE /\ pc' = "loop"
                /\ IF zip.active
                   THEN zip' = [zip EXCEPT !.outs = @ + 1] /\ net' = net
                   ELSE net' = [net EXCEPT !.reads = @ + 1] /\ zip' = zip
                /\ UNCHANGED <<result, failure>>

\* lines 241-257 and 258-273: a read of finalReader resolves or rejects.
\* Without the pipeline finalReader is the body reader; with it, the
\* decompressor's output, which ends only after its source has closed and
\* fails with the incomplete-data condition only after its source has
\* closed or failed.
LoopRead ==
    /\ pc = "loop"
    /\ \/ \* done
          /\ IF zip.active THEN zip.src = "closed" ELSE TRUE
          /\ net' = [net EXCEPT !.ended = TRUE]
          /\ Return(offset)
          /\ UNCHANGED <<offset, tempBuffer, delivered, zip, err>>
       \/ \* a chunk
          \E len \in LaterLens :
            /\ IF zip.active
               THEN zip.src \in {"open", "closed"} /\ zip.outs < MaxReads
               ELSE ~net.ended /\ net.reads < MaxReads
            /\ CopyChunk(len)
            /\ err' = err
       \/ \* the read rejects
          \E msg \in ErrorMessages :
            /\ IF zip.active
               THEN IsIncompleteData(msg) => zip.src \in {"closed", "errored"}
               ELSE ~net.ended
            /\ net' = IF zip.active THEN net ELSE [net EXCEPT !.errored = TRUE]
            /\ Catch(msg, offset)
            /\ err' = [caught |-> TRUE, message |-> msg, offset |-> offset]
            /\ UNCHANGED <<offset, tempBuffer, delivered, zip>>
    /\ UNCHANGED <<pairVars, loaderVars, peekVars, arg, res, initialUrl, chunkSize, targetUrl, isGoogleDrive,
                   validated, steps, requests, firstHead, probeGetRes, headRes,
                   probeMethod, fileSize, filename>>

\* lines 197-204: rawCompressedStream pulls the next chunk of the body for
\* the decompressor
Pull ==
    /\ pc = "loop"
    /\ zip.active
    /\ zip.src = "open"
    /\ \/ /\ net.reads < MaxReads
          /\ net' = [net EXCEPT !.reads = @ + 1]
          /\ zip' = [zip EXCEPT !.fed = Append(@, [idx |-> net.reads + 1, from |-> 0])]
       \/ /\ net' = [net EXCEPT !.ended = TRUE]
          /\ zip' = [zip EXCEPT !.src = "closed"]
       \/ /\ net' = [net EXCEPT !.errored = TRUE]
          /\ zip' = [zip EXCEPT !.src = "errored"]
    /\ UNCHANGED <<pairVars, loaderVars, peekVars, arg, res, pc, initialUrl, chunkSize, targetUrl,
                   isGoogleDrive, validated, steps, requests, firstHead,
                   probeGetRes, headRes, probeMethod, fileSize, filename,
                   failure, offset, tempBuffer, delivered, result, err>>

Next ==
    \/ Rewrite
    \/ Validate
    \/ SendHead
    \/ RecvHead
    \/ RecvProbeGet
    \/ RecvContent
    \/ FirstRead
    \/ LoopRead
    \/ Pull

Spec == Init /\ [][Next]_vars

(***************************************************************************)
(* extractFilenameFromUrl, both copies of server-utils.ts.  new URL(url)   *)
(* .pathname is the part of the URL after the host up to the first "?" or  *)
(* "#", and "/" when that part is empty.  The model's URLs carry no dot    *)
(* segment and no character the platform's parser would percent-encode.    *)
(***************************************************************************)
S_https == <<"h","t","t","p","s",":","/","/">>
S_pathMyFile == <<"/","p","a","t","h","/","t","o","/","M","y","%","2","0","F","i","l","e","%","2","0","N","a","m","e",".","m","k","v">>
S_MyFileName == <<"M","y"," ","F","i","l","e"," ","N","a","m","e",".","m","k","v">>
S_pathComplex == <<"/","p","a","t","h","/","t","o","/","C","o","m","p","l","e","x","%","2","0","M","o","v","i","e","%","2","0","N","a","m","e","%","2","0","(","2","0","0","0",")","%","2","0","[","4","K","]",".","m","k","v">>
S_ComplexName == <<"C","o","m","p","l","e","x"," ","M","o","v","i","e"," ","N","a","m","e"," ","(","2","0","0","0",")"," ","[","4","K","]",".","m","k","v">>
S_pathFolder == <<"/","f","o","l","d","e","r","/">>
S_folder == <<"f","o","l","d","e","r">>
S_pathDouble == <<"/","a","/","b","/","/">>
S_pathQuery == <<"/","v",".","m","k","v","?","n","e","x","t","=","/","w",".","m","p","4">>
S_pathHash == <<"/","v",".","m","k","v","#","t","=","/","1","0">>
S_pathBadEscape == <<"/","1","0","0","%",".","m","k","v">>
S_vmkv == <<"v",".","m","k","v">>

\* The URLs of the test file, and more path shapes: a doubled trailing
\* slash, no path, the root path, a query and a fragment holding a slash, a
\* malformed escape
PathUrls ==
    {S_https \o S_exampleHost \o p :
        p \in {S_pathMyFile, S_pathComplex, S_pathFolder, S_pathDouble, <<>>,
               <<"/">>, S_pathQuery, S_pathHash, S_pathBadEscape}}

MaxOf(S) == CHOOSE x \in S : \A y \in S : y <= x

\* new URL(url).pathname
Pathname(url) ==
    LET i     == IndexOf(url, <<":","/","/">>, 1)
        from  == i + 3 + Len(Hostname(url))
        last  == RunEnd(url, from, {"?", "#"})
    IN  IF last < from THEN <<"/">> ELSE SubSeq(url, from, last)

\* A basename that does not skip trailing slashes
basename_keepSlash(p) ==
    SubSeq(p, MaxOf({0} \cup {k \in DOMAIN p : p[k] = "/"}) + 1, Len(p))

\* path.posix.basename(p): trailing slashes are skipped, the name is what
\* follows the last slash before them
basename(p) ==
    LET names == {k \in DOMAIN p : p[k] # "/"}
    IN  IF names = {} THEN <<>>
        ELSE LET j == MaxOf(names)
                 i == MaxOf({0} \cup {k \in 1..j : p[k] = "/"})
             IN  SubSeq(p, i + 1, j)

RECURSIVE SplitOnSlash(_)
\* p.split('/')
SplitOnSlash(p) ==
    LET i == IndexOf(p, <<"/">>, 1)
    IN  IF i = 0 THEN <<p>>
        ELSE <<SubSeq(p, 1, i - 1)>> \o SplitOnSlash(SubSeq(p, i + 1, Len(p)))

\* segments.filter(Boolean)
FilterBoolean(segments) == SelectSeq(segments, LAMBDA x : x # <<>>)

\* lines 83-100 (copy = 1) and lines 182-198 (copy = 2); a URIError of
\* decodeURIComponent is caught like the TypeError of new URL
extractFilenameFromUrl(copy, url) ==
    IF ~UrlParses(url) THEN url
    ELSE LET name == IF copy = 1
                     THEN basename(Pathname(url))
                     ELSE LET cleanSegments == FilterBoolean(SplitOnSlash(Pathname(url)))
                          IN  IF cleanSegments = <<>> THEN <<>>
                              ELSE cleanSegments[Len(cleanSegments)]
         IN  IF name = <<>> \/ (copy = 1 /\ name \in {<<"/">>, <<".">>})
             THEN url
             ELSE IF DecodeThrows(name) THEN url
             ELSE decodeURIComponent(name)


(***************************************************************************)
(* The URL guard on its own: a URL is drawn, and one of the functions is   *)
(* applied to it.                                                          *)
(***************************************************************************)
InitUrl ==
    /\ arg \in Urls \cup PathUrls
    /\ res = [fn |-> "none"]
    /\ pc = "idle"
    /\ initialUrl = <<>>
    /\ chunkSize = 0
    /\ FetchIdle
    /\ PairIdle /\ LoaderIdle /\ PeekIdle

ApplyValidateUrl ==
    /\ res.fn = "none"
    /\ res' = [fn |-> "validateUrl", out |-> validateUrl(arg)]
    /\ UNCHANGED <<arg, fetchVars, pairVars, loaderVars, peekVars>>

ApplyValidateUrl2 ==
    /\ res.fn = "none"
    /\ res' = [fn |-> "validateUrl2", out |-> validateUrl2(arg)]
    /\ UNCHANGED <<arg, fetchVars, pairVars, loaderVars, peekVars>>

ApplyResolve ==
    /\ res.fn = "none"
    /\ res' = [fn |-> "resolveGoogleDriveUrl", out |-> resolveGoogleDriveUrl(arg)]
    /\ UNCHANGED <<arg, fetchVars, pairVars, loaderVars, peekVars>>

ApplyExtractFilename ==
    /\ res.fn = "none"
    /\ \E copy \in {1, 2} :
         res' = [fn |-> "extractFilenameFromUrl", copy |-> copy,
                 out |-> extractFilenameFromUrl(copy, arg)]
    /\ UNCHANGED <<arg, fetchVars, pairVars, loaderVars, peekVars>>

NextUrl ==
    ApplyValidateUrl \/ ApplyValidateUrl2 \/ ApplyResolve \/ ApplyExtractFilename

SpecUrl == InitUrl /\ [][NextUrl]_vars

(***************************************************************************)
(* Properties of the capped copy (specification Spec).                     *)
(***************************************************************************)
RECURSIVE BytesIn(_)
\* The bytes tempBuffer holds: the lengths of the slices written to it
BytesIn(buf) == IF buf = <<>> THEN 0 ELSE Head(buf).len + BytesIn(Tail(buf))

\* C1: in every reachable state the write offset is at most SAFE_LIMIT, the
\* bytes written to the buffer are exactly the offset, and a returned
\* buffer is never longer than SAFE_LIMIT.
C1_OffsetWithinLimit ==
    /\ offset >= 0
    /\ offset <= SAFE_LIMIT
    /\ BytesIn(tempBuffer) = offset
    /\ result.returned => result.length = offset /\ result.length <= SAFE_LIMIT

\* The body delivered more than the buffer holds, over several chunks, and
\* the run returned a full buffer
C1_Witness ==
    /\ pc = "done"
    /\ result.returned
    /\ delivered > SAFE_LIMIT
    /\ Len(tempBuffer) >= 2
    /\ result.length = SAFE_LIMIT

\* C2: a run that returns a full buffer (offset = SAFE_LIMIT) while the
\* network stream has neither ended nor failed has cancelled the network
\* stream.
C2_CancelledWhenFull ==
    (/\ result.returned
     /\ result.length = SAFE_LIMIT
     /\ ~net.ended
     /\ ~net.errored) => net.cancelled

\* C3: a run over a stream that delivered at least SAFE_LIMIT bytes to the
\* copy ends only by returning exactly SAFE_LIMIT bytes, or by a read that
\* failed; and at every moment the buffer holds all that was delivered, up
\* to SAFE_LIMIT.
C3_FullWhenEnoughDelivered ==
    /\ offset = MinOf({delivered, SAFE_LIMIT})
    /\ (pc = "done" /\ delivered >= SAFE_LIMIT) =>
           result.returned /\ result.length = SAFE_LIMIT
    /\ (pc = "failed" /\ delivered >= SAFE_LIMIT) =>
           failure.kind = "StreamReadingFailed"

\* Two chunks that together are exactly SAFE_LIMIT bytes, then the end of
\* the stream
C3_Witness ==
    /\ pc = "done"
    /\ delivered = SAFE_LIMIT
    /\ Len(tempBuffer) = 2
    /\ net.ended
    /\ result.length = SAFE_LIMIT

(***************************************************************************)
(* Properties of the request pipeline (specification Spec).                *)
(***************************************************************************)
\* C4: every request issued (probe HEAD, probe GET, content GET) goes to
\* targetUrl, the URL after the rewrite, and is issued only after
\* validateUrl accepted that very string; when validateUrl throws, no
\* request has been issued and the run has ended with the error it threw.
C4_NoRequestBeforeValidation ==
    /\ \A i \in DOMAIN requests :
          /\ requests[i].url = targetUrl
          /\ validated = <<targetUrl>>
    /\ pc \in {"validated", "awaitHead"} =>
          /\ validated = <<targetUrl>>
          /\ \E copy \in {1, 2} : ValidateOutcome(copy, targetUrl) = "ok"
    /\ requests # <<>> => requests[1] = Request("HEAD", targetUrl, <<>>)
    /\ failure.kind \in {"InvalidURL", "TypeError"} =>
          requests = <<>> /\ pc = "failed" /\ ~result.returned

\* A view link was rewritten, the rewritten URL was validated, and the
\* probe and the content request went to it
C4_Witness ==
    /\ targetUrl # initialUrl
    /\ validated = <<targetUrl>>
    /\ Len(requests) >= 2
    /\ \A i \in DOMAIN requests : requests[i].url = targetUrl

\* The order of the steps in the code
CodeOrder == <<"rewrite", "validate", "probe", "fetch">>

\* The order of the steps as the specification has it
SpecOrder == <<"validate", "rewrite", "probe", "fetch">>

IsPrefixOf(s, t) == Len(s) <= Len(t) /\ s = SubSeq(t, 1, Len(s))

\* C5: the steps of a run are taken strictly in the order rewrite,
\* validate, probe, fetch, each only once the one before it has given its
\* result, and none after a step that failed: a run whose validation threw
\* stops after two steps, the probe starts only on a validated URL, and the
\* content request is issued only on a probe response that passed the
\* classification.
C5_StepsInCodeOrder ==
    /\ IsPrefixOf(steps, CodeOrder)
    /\ Len(steps) \in 1..3 => targetUrl = resolveGoogleDriveUrl(initialUrl).url
    /\ Len(steps) >= 3 => validated = <<targetUrl>>
    /\ failure.kind \in {"InvalidURL", "TypeError"} => steps = SubSeq(CodeOrder, 1, 2)
    /\ failure.kind \in {"RateLimited", "Webpage", "NotFound", "AccessDenied",
                         "UnableToAccess"} => steps = SubSeq(CodeOrder, 1, 3)
    /\ pc = "awaitContent" =>
          steps = CodeOrder /\ Ok(headRes) /\ ~IsHtml(headRes)
    /\ Len(steps) < 3 => requests = <<>>
    /\ Len(steps) < 4 => ~net.open /\ \A i \in DOMAIN requests : requests[i].range \in {<<>>, <<Num(0)>>}

\* All four steps were taken
C5_Witness == pc = "awaitContent" /\ steps = CodeOrder /\ Len(requests) >= 2

\* C5 as the specification states it: the steps are taken in the order
\* validate, rewrite, probe, fetch.
C5_StepsInSpecOrder == IsPrefixOf(steps, SpecOrder)

\* C10: once the HEAD response is in, a GET with Range bytes=0-0 has been
\* issued exactly if its status was 405; then probeMethod is 'GET' and the
\* classification, the size and the filename are those of the GET
\* response; otherwise probeMethod is 'HEAD', no probe GET was issued and
\* they are those of the HEAD response.
C10_ProbeFallback ==
    firstHead # NoResponse =>
        LET fellBack == firstHead.status = 405
            used     == IF fellBack THEN probeGetRes ELSE firstHead
            probeGets == {i \in DOMAIN requests :
                             requests[i] = Request("GET", targetUrl, <<Num(0)>>)}
        IN  /\ requests[1] = Request("HEAD", targetUrl, <<>>)
            /\ fellBack <=> probeGets = {2}
            /\ ~fellBack => probeGets = {} /\ probeGetRes = NoResponse
            /\ probeMethod = IF fellBack THEN "GET" ELSE "HEAD"
            /\ used # NoResponse =>
                  /\ headRes = used
                  /\ IF ProbeFailure(used, isGoogleDrive) # NoFailure
                     THEN /\ pc = "failed"
                          /\ failure = ProbeFailure(used, isGoogleDrive)
                          /\ Len(requests) = IF fellBack THEN 2 ELSE 1
                     ELSE /\ pc = "awaitContent"
                          /\ fileSize = FileSizeOf(used)
                          /\ filename = FilenameOf(used, targetUrl)
                          /\ Len(requests) = IF fellBack THEN 3 ELSE 2

\* HEAD answered 405 with headers of its own, the single-byte GET
\* succeeded, and the size and the filename are the GET response's, not the
\* HEAD response's
C10_Witness ==
    /\ pc = "awaitContent"
    /\ firstHead.status = 405
    /\ probeMethod = "GET"
    /\ Ok(probeGetRes)
    /\ fileSize = FileSizeOf(probeGetRes)
    /\ fileSize # FileSizeOf(firstHead)
    /\ filename = FilenameOf(probeGetRes, targetUrl)
    /\ filename # FilenameOf(firstHead, targetUrl)

(***************************************************************************)
(* Properties of the URL guard and of the rewrite (specification SpecUrl). *)
(***************************************************************************)
S_172_15_0_1 == <<"1","7","2",".","1","5",".","0",".","1">>
S_172_20_0_1 == <<"1","7","2",".","2","0",".","0",".","1">>
S_172_32_0_1 == <<"1","7","2",".","3","2",".","0",".","1">>

\* One of the two copies of validateUrl was applied to a URL that parses
ValidateApplied ==
    /\ res.fn \in {"validateUrl", "validateUrl2"}
    /\ UrlParses(arg)

\* validateUrl threw
Threw == res.out # "ok"

\* The second label of the host is a decimal number from 16 to 31
SecondOctetIn16To31(host) ==
    /\ Len(Split(host)) >= 2
    /\ Split(host)[2] # <<>>
    /\ \A k \in DOMAIN Split(host)[2] : Split(host)[2][k] \in Range(S_digits)
    /\ DecimalValue(Split(host)[2]) \in 16..31

\* C6: either copy of validateUrl throws for every URL whose hostname is
\* 'localhost', begins with '127.', '10.' or '192.168.', begins with '172.'
\* with a second octet from 16 to 31, or is one of the two metadata hosts;
\* it throws for the seven hosts the specification lists, and it accepts
\* 172.15.0.1 and 172.32.0.1.
C6_PrivateHostsRejected ==
    ValidateApplied =>
        LET host == Hostname(arg)
        IN  /\ (\/ host = S_localhost
                \/ StartsWith(host, S_127dot)
                \/ StartsWith(host, S_10dot)
                \/ StartsWith(host, S_192_168dot)
                \/ (StartsWith(host, S_172dot) /\ SecondOctetIn16To31(host))
                \/ host \in {S_metadataHost, S_169_254_169_254}) => Threw
            /\ host \in {S_127_0_0_1, S_localhost, S_10_1_2_3, S_192_168_0_5,
                         S_172_20_0_1, S_169_254_169_254, S_metadataHost} => Threw
            /\ host \in {S_172_15_0_1, S_172_32_0_1} => ~Threw

\* The first copy has refused 172.20.0.1 as a private address
C6_Witness ==
    /\ res.fn = "validateUrl"
    /\ UrlParses(arg)
    /\ Hostname(arg) = S_172_20_0_1
    /\ res.out = "private"

\* C7: either copy of validateUrl throws for every hostname that begins
\* with '169.254.'.
C7_LinkLocalRejected ==
    (ValidateApplied /\ StartsWith(Hostname(arg), S_169_254dot)) => Threw

\* C8: either copy of validateUrl throws for a URL whose parsed hostname is
\* the bracketed IPv6 loopback literal '[::1]'.
C8_Ipv6LoopbackRejected ==
    (ValidateApplied /\ Hostname(arg) = S_v6loopBr) => Threw

\* The URL's host is the provider's direct-download host
TargetsDownloadHost(url) == UrlParses(url) /\ Hostname(url) = S_usercontentHost

\* C9: resolveGoogleDriveUrl returns the direct-download URL of F, flagged,
\* for a URL that matches the view-link pattern with identifier F; the URL
\* unchanged and flagged for one whose host is the direct-download host;
\* the URL unchanged and not flagged for any other.
C9_ResolveByCases ==
    res.fn = "resolveGoogleDriveUrl" =>
        LET match == GOOGLE_DRIVE_REGEX(arg)
        IN  IF match # <<>>
            THEN /\ res.out.isGoogleDrive
                 /\ res.out.url = S_downloadPrefix \o match[1] \o S_downloadSuffix
                 /\ Includes(res.out.url, S_idEq \o match[1])
            ELSE IF TargetsDownloadHost(arg)
            THEN res.out = [url |-> arg, isGoogleDrive |-> TRUE]
            ELSE res.out = [url |-> arg, isGoogleDrive |-> FALSE]

(***************************************************************************)
(* Properties of the probe's classification (specification Spec).          *)
(***************************************************************************)
\* The final probe response: the fallback GET's when HEAD answered 405, the
\* HEAD's otherwise; NoResponse while it has not arrived
FinalProbe ==
    IF firstHead = NoResponse THEN NoResponse
    ELSE IF firstHead.status = 405 THEN probeGetRes
    ELSE firstHead

\* The response carries a content-type that contains 'text/html'
SaysHtml(r) == r.contentType # <<>> /\ Includes(r.contentType[1], S_textHtml)

\* No content request has been issued: the requests are the probe's only
NoContentRequest ==
    /\ Len(requests) = IF firstHead.status = 405 THEN 2 ELSE 1
    /\ \A i \in DOMAIN requests : requests[i].range \in {<<>>, <<Num(0)>>}
    /\ steps = SubSeq(CodeOrder, 1, 3)
    /\ ~net.open

\* C11: when the final probe response's content-type contains 'text/html',
\* the run has failed without a content request, whatever the response's
\* status: with the rate-limit error when the URL was flagged as the
\* provider's, with the webpage error otherwise.
C11_HtmlProbeFails ==
    (FinalProbe # NoResponse /\ SaysHtml(FinalProbe)) =>
        /\ pc = "failed"
        /\ ~result.returned
        /\ failure = [kind |-> IF isGoogleDrive THEN "RateLimited" ELSE "Webpage"]
        /\ NoContentRequest

\* The provider answered 200 with an HTML page
C11_Witness ==
    /\ FinalProbe # NoResponse
    /\ SaysHtml(FinalProbe)
    /\ FinalProbe.status = 200
    /\ isGoogleDrive
    /\ failure = [kind |-> "RateLimited"]
    /\ pc = "failed"

\* C12: when the final probe response is not HTML, the run has failed
\* without a content request exactly if the status is not 2xx: 404 gives
\* the not-found error, 403 the access-denied error, any other status N
\* the generic error that carries N; a 2xx response goes on to the content
\* request.
C12_StatusMapping ==
    (FinalProbe # NoResponse /\ ~SaysHtml(FinalProbe)) =>
        LET N == FinalProbe.status
        IN  IF N \in 200..299
            THEN pc = "awaitContent" /\ failure = NoFailure
            ELSE /\ pc = "failed"
                 /\ ~result.returned
                 /\ NoContentRequest
                 /\ failure = CASE N = 404 -> [kind |-> "NotFound"]
                              []   N = 403 -> [kind |-> "AccessDenied"]
                              []   OTHER   -> [kind |-> "UnableToAccess", status |-> N]

\* A 403 on a media content type
C12_Witness ==
    /\ FinalProbe # NoResponse
    /\ ~SaysHtml(FinalProbe)
    /\ FinalProbe.status = 403
    /\ failure = [kind |-> "AccessDenied"]
    /\ pc = "failed"

\* The number after the final '/' of a Content-Range value, as <<n>>, or
\* <<>> when the value has no '/' or what follows it is not a number
NumericTotal(cr) ==
    LET slashes == {i \in DOMAIN cr : cr[i] = "/"}
    IN  IF slashes = {} THEN <<>>
        ELSE LET last == CHOOSE i \in slashes : \A j \in slashes : j <= i
                 tail == SubSeq(cr, last + 1, Len(cr))
             IN  IF tail # <<>> /\ \A k \in DOMAIN tail : tail[k] \in Range(S_digits)
                 THEN <<DecimalValue(tail)>>
                 ELSE <<>>

\* The total size the headers of a response state: the Content-Range total
\* when the header is present with a numeric total, otherwise the
\* Content-Length value, otherwise unknown
StatedSize(r) ==
    IF r.contentRange # <<>> /\ NumericTotal(r.contentRange[1]) # <<>>
    THEN Num(NumericTotal(r.contentRange[1])[1])
    ELSE IF r.contentLength # <<>>
    THEN Num(DecimalValue(r.contentLength[1]))
    ELSE Undefined

\* C13: once the final probe response has passed the classification, the
\* total size is its Content-Range total when that header is present with
\* a numeric total, otherwise its Content-Length value; with neither
\* header the size is undefined and the content request is issued all the
\* same.
C13_SizeFromProbe ==
    (FinalProbe # NoResponse /\ ProbeFailure(FinalProbe, isGoogleDrive) = NoFailure) =>
        /\ pc = "awaitContent"
        /\ Len(requests) >= 2
        /\ fileSize = StatedSize(FinalProbe)

\* The content request, once it has been issued
ContentRequestIssued == steps = CodeOrder

ContentRequest == requests[Len(requests)]

\* C14: the content request is a GET of targetUrl with Range 'bytes=0-E',
\* where E = min(chunkSize, total size) - 1 when the total size is known
\* and E = chunkSize - 1 when it is unknown.
C14_RangeEnd ==
    ContentRequestIssued =>
        LET E == IF IsNum(fileSize)
                 THEN (IF chunkSize <= fileSize.v THEN chunkSize ELSE fileSize.v) - 1
                 ELSE chunkSize - 1
        IN  /\ fileSize = Undefined \/ IsNum(fileSize)
            /\ Len(requests) \in {2, 3}
            /\ ContentRequest = Request("GET", targetUrl, <<Num(E)>>)

\* A total size of 50 bytes under the default chunk size: bytes=0-49
C14_Witness ==
    /\ ContentRequestIssued
    /\ fileSize = Num(50)
    /\ chunkSize > 50
    /\ ContentRequest.range = <<Num(49)>>

(***************************************************************************)
(* Properties of the buffer's content (specification Spec).                *)
(***************************************************************************)
\* The first chunk starts with 50 4B 03 04, is longer than 30 bytes, has
\* compression method 8 and is longer than its data offset
MeetsUnwrapConditions(c) ==
    /\ <<c.b[0], c.b[1], c.b[2], c.b[3]>> = <<80, 75, 3, 4>>
    /\ c.len > 30
    /\ c.b[8] + 256 * c.b[9] = 8
    /\ c.len > 30 + (c.b[26] + 256 * c.b[27]) + (c.b[28] + 256 * c.b[29])

RECURSIVE LensBefore(_, _)
\* The bytes of the slices of buf before the k-th
LensBefore(buf, k) == IF k <= 1 THEN 0 ELSE buf[k - 1].len + LensBefore(buf, k - 1)

\* The buffer is the chunks that `origin` delivered, in order from the
\* first, back to back from position 0, each whole but for the last, which
\* may be cut short
ConcatenationOf(origin) ==
    \A k \in DOMAIN tempBuffer :
        /\ tempBuffer[k].from = origin
        /\ tempBuffer[k].idx = k
        /\ tempBuffer[k].at = LensBefore(tempBuffer, k)
        /\ tempBuffer[k].len <= tempBuffer[k].size
        /\ k < Len(tempBuffer) => tempBuffer[k].len = tempBuffer[k].size

\* C15: when the first body chunk meets the conditions of the unwrap, the
\* decompressor is fed the first chunk from dataOffset onward followed by
\* every later body chunk, whole and in arrival order, and the buffer holds
\* the decompressor's output only, in order, up to SAFE_LIMIT: no byte of
\* the body itself (header or compressed data) is written to it.
C15_UnwrapContent ==
    (net.first # NoChunk /\ MeetsUnwrapConditions(net.first)) =>
        LET b == net.first.b
            dataOffset == 30 + (b[26] + 256 * b[27]) + (b[28] + 256 * b[29])
        IN  /\ zip.active
            /\ zip.fed = [k \in 1..net.reads |->
                             [idx |-> k, from |-> IF k = 1 THEN dataOffset ELSE 0]]
            /\ ConcatenationOf("inflate")
            /\ BytesIn(tempBuffer) = MinOf({delivered, SAFE_LIMIT})
            /\ result.returned => result.length = BytesIn(tempBuffer)

\* A deflate entry with a 9-byte name: the decompressor was fed from offset
\* 39 of the first chunk and two more chunks, and two chunks of its output
\* are in the returned buffer
C15_Witness ==
    /\ result.returned
    /\ zip.active
    /\ Len(zip.fed) = 3
    /\ zip.fed[1] = [idx |-> 1, from |-> 39]
    /\ Len(tempBuffer) = 2
    /\ tempBuffer[2].from = "inflate"

\* C16: when the first body chunk does not meet the conditions of the
\* unwrap, no pipeline is set up and the buffer is the body's chunks in
\* arrival order, the first at position 0, each right after the one
\* before, cut at SAFE_LIMIT: every chunk read is in it, unless the buffer
\* was full already.
C16_PlainConcatenation ==
    (net.first # NoChunk /\ ~MeetsUnwrapConditions(net.first)) =>
        /\ ~zip.active
        /\ zip.fed = <<>>
        /\ ConcatenationOf("body")
        /\ tempBuffer # <<>> /\ tempBuffer[1].size = net.first.len
        /\ \/ Len(tempBuffer) = net.reads
           \/ Len(tempBuffer) = net.reads - 1 /\ offset = SAFE_LIMIT
        /\ BytesIn(tempBuffer) = MinOf({delivered, SAFE_LIMIT})
        /\ result.returned => result.length = BytesIn(tempBuffer)

\* A stored ZIP entry (method 0) followed by two more chunks, the last of
\* them cut short at SAFE_LIMIT
C16_Witness ==
    /\ result.returned
    /\ net.first # NoChunk
    /\ net.first.b = ZipHeader(0, 9, 0)
    /\ Len(tempBuffer) = 3
    /\ tempBuffer[3].len < tempBuffer[3].size
    /\ tempBuffer[3].at = tempBuffer[1].len + tempBuffer[2].len
    /\ result.length = SAFE_LIMIT

(***************************************************************************)
(* Properties of the error handling of the copy (specification Spec).      *)
(***************************************************************************)
\* C17: a read failure caught during the copy is swallowed, the run
\* returning the bytes written so far, exactly when it is the incomplete /
\* unexpected-end condition (which the code knows by its message) and at
\* least one byte had been written; any other failure, and that condition
\* with nothing written, makes the run fail.
C17_SwallowRule ==
    err.caught =>
        IF err.offset > 0
           /\ err.message \in {"incomplete data", "unexpected end of file"}
        THEN /\ pc = "done"
             /\ result.returned
             /\ result.length = err.offset
             /\ failure = NoFailure
        ELSE /\ pc = "failed"
             /\ ~result.returned
             /\ failure.kind = "StreamReadingFailed"
             /\ failure.message = err.message

\* The decompressor's source ended early after some output was written,
\* and the run returned that output
C17_Witness ==
    /\ err.caught
    /\ zip.active
    /\ zip.src = "closed"
    /\ err.message = "unexpected end of file"
    /\ err.offset > 0
    /\ result.returned
    /\ result.length = err.offset

\* The run has failed with an error of a read of the body stream
ReadFailureSurfaced ==
    /\ pc = "failed"
    /\ failure.kind \in {"ReadRejected", "StreamReadingFailed"}

\* C18: every read failure the run surfaces, that of the first read
\* included, is an error whose message starts with 'Stream reading failed: '.
C18_ReadFailuresPrefixed ==
    ReadFailureSurfaced => MessagePrefix(failure) = "Stream reading failed: "

\* C19: a returned buffer holds at most SAFE_LIMIT bytes and, when the
\* total size was known and smaller than chunkSize, at most the total size
\* (the length of the requested range).
C19_WithinRequestedRange ==
    result.returned =>
        /\ result.length <= SAFE_LIMIT
        /\ (IsNum(fileSize) /\ fileSize.v < chunkSize) => result.length <= fileSize.v

(***************************************************************************)
(* No retry (specification Spec).                                          *)
(***************************************************************************)
\* The requests of the given method, with or without a Range header
RequestsOf(method, ranged) ==
    {i \in DOMAIN requests :
        requests[i].method = method /\ (requests[i].range # <<>>) = ranged}

\* At most one HEAD, one probe GET and one content GET have been issued, in
\* that order, and a failure has ended the run with no value returned
C20_AtMostOnce ==
    /\ Cardinality(RequestsOf("HEAD", FALSE)) <= 1
    /\ RequestsOf("HEAD", TRUE) = {}
    /\ RequestsOf("GET", FALSE) = {}
    /\ Cardinality(RequestsOf("GET", TRUE)) =
          (IF probeMethod = "GET" THEN 1 ELSE 0) + (IF steps = CodeOrder THEN 1 ELSE 0)
    /\ Len(requests) <= 3
    /\ requests # <<>> => requests[1].method = "HEAD"
    /\ failure # NoFailure => pc = "failed" /\ ~result.returned

\* A step is taken only by a run that has not failed, and issues at most
\* one request more
C20_NoStepAfterFailure ==
    /\ failure = NoFailure
    /\ pc # "failed"
    /\ \/ requests' = requests
       \/ Len(requests') = Len(requests) + 1
          /\ SubSeq(requests', 1, Len(requests)) = requests

\* C20: a run issues at most one HEAD, one probe GET and one content GET,
\* and after a failure (of the validation, of the classification, a missing
\* body, a rejected fetch or a stream error) it takes no further step: the
\* failure is the run's outcome.
C20_NoRetry == [](C20_AtMostOnce) /\ [][C20_NoStepAfterFailure]_vars

\* The content request was rejected after the HEAD and the fallback GET:
\* three requests, and the run has failed
C20_Witness ==
    /\ pc = "failed"
    /\ failure = [kind |-> "FetchRejected"]
    /\ Len(requests) = 3
    /\ steps = CodeOrder

(***************************************************************************)
(* The Range header of the content request (specification Spec).           *)
(***************************************************************************)
\* C29: the Range header of the content request is well formed: it is
\* 'bytes=0-E' with a numeric end E that is not smaller than the start 0,
\* whatever total size the probe yielded.
C29_RangeWellFormed ==
    ContentRequestIssued =>
        /\ ContentRequest.range # <<>>
        /\ IsNum(ContentRequest.range[1])
        /\ ContentRequest.range[1].v >= 0

(***************************************************************************)
(* Two fetchMediaChunk runs in one isolate, from the content response on   *)
(* (lines 135-286).  The runs interleave at their awaits.  A Uint8Array is *)
(* an object of the heap, and tempBuffer refers to it; a slice copied      *)
(* into it is tagged with the run whose reader delivered the chunk.        *)
(* The reads of the decompression pipeline are taken as the reads of a     *)
(* second reader of the same run.                                          *)
(***************************************************************************)
Runs == {1, 2}

\* The first chunks and the later chunk lengths a body delivers here
PairChunks == [len : {40, HalfLimit, SAFE_LIMIT + 1},
               b : {MkvHeader, ZipHeader(8, 0, 0)}]
PairLens == {40, HalfLimit, SAFE_LIMIT + 1}

\* A run suspended in the await of line 135
FreshRun == [pc |-> "awaitContent", tempBuffer |-> 0, offset |-> 0,
             reads |-> 0, unwrapped |-> FALSE, failure |-> "none",
             result |-> [returned |-> FALSE, buffer |-> 0, length |-> 0]]

InitPair ==
    /\ arg = <<>>
    /\ res = [fn |-> "none"]
    /\ pc = "idle"
    /\ initialUrl = <<>>
    /\ chunkSize = 0
    /\ FetchIdle
    /\ LoaderIdle /\ PeekIdle
    /\ runs = [r \in Runs |-> FreshRun]
    /\ heap = <<>>

\* One buffer that every run writes to
NewBuffer_shared(h) == 1

\* line 143: new Uint8Array(SAFE_LIMIT) is the object just allocated
NewBuffer(h) == Len(h)

\* The reader a run's copy loop reads from, line 161 or 212
FinalReader(r) == IF runs[r].unwrapped THEN "inflate" ELSE "body"

\* tempBuffer.set(...) of run r, lines 226, 234, 248, 253
PairWritten(r, len, size) ==
    [heap EXCEPT ![runs[r].tempBuffer] =
        Written(@, runs[r].offset, [run |-> r, reader |-> FinalReader(r)],
                runs[r].reads + 1, len, size)]

\* lines 276-285: the view tempBuffer.subarray(0, offset)
PairReturn(run) ==
    [run EXCEPT !.pc = "done",
                !.result = [returned |-> TRUE, buffer |-> run.tempBuffer,
                            length |-> run.offset]]

\* lines 135-155 of run r: the response arrives, the buffer is allocated
PairRecvContent(r) ==
    /\ runs[r].pc = "awaitContent"
    /\ \/ /\ runs' = [runs EXCEPT ![r].pc = "failed",
                                  ![r].failure = "FetchRejected"]
          /\ heap' = heap
       \/ /\ heap' = Append(heap, <<>>)
          /\ \E body \in BOOLEAN :
               runs' = [runs EXCEPT
                          ![r].tempBuffer = NewBuffer(heap'),
                          ![r].pc = IF body THEN "awaitFirstRead" ELSE "failed",
                          ![r].failure = IF body THEN "none" ELSE "NoBody"]
    /\ UNCHANGED <<urlVars, fetchVars, loaderVars, peekVars>>

\* lines 155-240 of run r
PairFirstRead(r) ==
    /\ runs[r].pc = "awaitFirstRead"
    /\ \/ /\ runs' = [runs EXCEPT ![r].pc = "failed",
                                  ![r].failure = "ReadRejected"]
          /\ heap' = heap
       \/ /\ runs' = [runs EXCEPT ![r].pc = "loop"]
          /\ heap' = heap
       \/ \E c \in PairChunks :
            IF Unwraps(c)
            THEN /\ runs' = [runs EXCEPT ![r].pc = "loop",
                                         ![r].unwrapped = TRUE]
                 /\ heap' = heap
            ELSE LET spaceLeft == SAFE_LIMIT - runs[r].offset
                     n == CopyLen(c.len, spaceLeft)
                     after == [runs[r] EXCEPT !.offset = @ + n, !.reads = 1,
                                              !.pc = "loop"]
                 IN  /\ heap' = PairWritten(r, n, c.len)
                     /\ runs' = [runs EXCEPT ![r] =
                                   IF after.offset < SAFE_LIMIT
                                   THEN after ELSE PairReturn(after)]
    /\ UNCHANGED <<urlVars, fetchVars, loaderVars, peekVars>>

\* lines 241-273 of run r
PairLoopRead(r) ==
    /\ runs[r].pc = "loop"
    /\ \/ /\ runs' = [runs EXCEPT ![r] = PairReturn(@)]
          /\ heap' = heap
       \/ \E len \in PairLens :
            LET spaceLeft == SAFE_LIMIT - runs[r].offset
                n == CopyLen(len, spaceLeft)
                after == [runs[r] EXCEPT !.offset = @ + n, !.reads = @ + 1]
            IN  /\ runs[r].reads < MaxReads
                /\ heap' = PairWritten(r, n, len)
                /\ runs' = [runs EXCEPT ![r] =
                              IF Overflows(len, spaceLeft)
                              THEN PairReturn(after) ELSE after]
       \/ \E msg \in ErrorMessages :
            /\ runs' = [runs EXCEPT ![r] =
                          IF Swallows(msg, @.offset)
                          THEN PairReturn(@)
                          ELSE [@ EXCEPT !.pc = "failed",
                                         !.failure = "StreamReadingFailed"]]
            /\ heap' = heap
    /\ UNCHANGED <<urlVars, fetchVars, loaderVars, peekVars>>

NextPair ==
    \E r \in Runs : PairRecvContent(r) \/ PairFirstRead(r) \/ PairLoopRead(r)

SpecPair == InitPair /\ [][NextPair]_vars

(***************************************************************************)
(* Buffer ownership (specification SpecPair).                              *)
(***************************************************************************)
\* The Uint8Array a run wrote into
BufferOf(r) == heap[runs[r].tempBuffer]

\* The buffer of run r holds only chunks that r's own readers delivered, in
\* the order r read them, back to back, and as many bytes as r's offset
OwnBytesOnly(r) ==
    /\ \A k \in DOMAIN BufferOf(r) :
          /\ BufferOf(r)[k].from.run = r
          /\ BufferOf(r)[k].idx = k
          /\ BufferOf(r)[k].at = LensBefore(BufferOf(r), k)
    /\ BytesIn(BufferOf(r)) = runs[r].offset
    /\ runs[r].result.returned =>
          /\ runs[r].result.buffer = runs[r].tempBuffer
          /\ runs[r].result.length = runs[r].offset

C22_Separate ==
    \A r \in Runs : runs[r].tempBuffer # 0 =>
        /\ OwnBytesOnly(r)
        /\ \A q \in Runs \ {r} : runs[q].tempBuffer # runs[r].tempBuffer

\* A step of one run leaves the other run's locals and buffer as they were
C22_NoInterference ==
    \A r \in Runs :
        (runs'[r] # runs[r]) =>
            \A q \in Runs \ {r} :
                /\ runs'[q] = runs[q]
                /\ runs[q].tempBuffer # 0 =>
                      heap'[runs[q].tempBuffer] = heap[runs[q].tempBuffer]

\* C22: two fetchMediaChunk runs interleaved at their awaits never touch
\* each other's buffer: each run allocates its own, the bytes a run returns
\* come only from its own response body, and no step of one run changes the
\* other run's buffer or result.
C22_OwnBuffer == [](C22_Separate) /\ [][C22_NoInterference]_vars

\* Both runs returned a full buffer, the second having been allocated and
\* filled while the first was suspended between two reads
C22_Witness ==
    /\ \A r \in Runs : runs[r].result.returned /\ runs[r].result.length = SAFE_LIMIT
    /\ Len(heap[1]) = 2 /\ Len(heap[2]) = 2
    /\ runs[1].tempBuffer = 2

(***************************************************************************)
(* Properties of extractFilenameFromUrl (specification SpecUrl).           *)
(***************************************************************************)
\* The last non-empty segment of the URL's path, as <<segment>>, or <<>>
\* when the path has none
LastSegment(url) ==
    LET p    == Pathname(url)
        ends == {j \in DOMAIN p : p[j] # "/" /\ (j = Len(p) \/ \A k \in (j + 1)..Len(p) : p[k] = "/")}
    IN  IF ends = {} THEN <<>>
        ELSE LET j == MinOf(ends)
                 starts == {i \in 1..j : \A k \in i..j : p[k] # "/"}
             IN  <<SubSeq(p, MinOf(starts), j)>>

\* C25: extractFilenameFromUrl (either copy) returns its input unchanged
\* when the input does not parse as a URL, and the percent-decoded last
\* non-empty path segment when it parses and has one (a trailing slash is
\* ignored); for the URLs of the test file it returns 'My File Name.mkv',
\* 'Complex Movie Name (2000) [4K].mkv' and 'folder'.
C25_LastSegmentDecoded ==
    res.fn = "extractFilenameFromUrl" =>
        /\ ~UrlParses(arg) => res.out = arg
        /\ (UrlParses(arg) /\ LastSegment(arg) # <<>>
              /\ ~DecodeThrows(LastSegment(arg)[1])) =>
                res.out = decodeURIComponent(LastSegment(arg)[1])
        /\ arg = S_https \o S_exampleHost \o S_pathMyFile => res.out = S_MyFileName
        /\ arg = S_https \o S_exampleHost \o S_pathComplex => res.out = S_ComplexName
        /\ arg = S_https \o S_exampleHost \o S_pathFolder => res.out = S_folder
        /\ arg = S_https \o S_exampleHost \o S_pathQuery => res.out = S_vmkv
        /\ arg = S_notAUrl => res.out = S_notAUrl

\* The first copy has answered 'folder' for a path with a trailing slash
C25_Witness ==
    /\ res.fn = "extractFilenameFromUrl"
    /\ res.copy = 1
    /\ arg = S_https \o S_exampleHost \o S_pathFolder
    /\ res.out = S_folder

(***************************************************************************)
(* normalizeMediaInfo (media-utils.ts, lines 71-98).  A JSON-like value is *)
(* [t, s, kids]: t its kind, s the text of a primitive, kids the entries   *)
(* of an array (keys "") or of an object, in order.                        *)
(***************************************************************************)
Prim(t, s) == [t |-> t, s |-> s, kids |-> <<>>]
KV(k, v) == [k |-> k, v |-> v]
Arr(items) == [t |-> "array", s |-> "", kids |-> [i \in DOMAIN items |-> KV("", items[i])]]
Obj(entries) == [t |-> "object", s |-> "", kids |-> entries]

\* { "@dt": ..., "#value": v }
Wrapper(v) == Obj(<<KV("@dt", Prim("string", "binary.base64")), KV("#value", v)>>)

\* The nesting depth of the inputs
MaxDepth == 3

Leaves == {Prim("string", "x"), Prim("number", "1"), Prim("null", "")}

RECURSIVE JsonValues(_)
\* The values of nesting depth up to d: primitives, wrappers, an object
\* whose '#value' is undefined, objects and arrays of smaller values
JsonValues(d) ==
    IF d = 0 THEN Leaves
    ELSE LET sub == JsonValues(d - 1)
         IN  sub
             \cup {Wrapper(v) : v \in sub}
             \cup {Obj(<<KV("Title", v)>>) : v \in sub}
             \cup {Arr(<<v>>) : v \in sub}
             \cup {Arr(<<Prim("string", "x"), v>>) : v \in sub}
             \cup {Obj(<<KV("#value", Prim("undefined", "")), KV("Title", v)>>) : v \in sub}

\* lines 80-83: '#value' in data && data['#value'] !== undefined, as the
\* positions of such an entry
DefinedValueAt(data) ==
    {i \in DOMAIN data.kids : data.kids[i].k = "#value" /\ data.kids[i].v.t # "undefined"}

RECURSIVE normalizeMediaInfo(_)
\* lines 71-98
normalizeMediaInfo(data) ==
    IF data.t = "array"
    THEN [data EXCEPT !.kids = [i \in DOMAIN data.kids |->
                                   KV("", normalizeMediaInfo(data.kids[i].v))]]
    ELSE IF data.t = "object"
    THEN IF DefinedValueAt(data) # {}
         THEN data.kids[MinOf(DefinedValueAt(data))].v
         ELSE [data EXCEPT !.kids = [i \in DOMAIN data.kids |->
                                        KV(data.kids[i].k,
                                           normalizeMediaInfo(data.kids[i].v))]]
    ELSE data

InitJson ==
    /\ arg \in JsonValues(MaxDepth)
    /\ res = [fn |-> "none"]
    /\ pc = "idle"
    /\ initialUrl = <<>>
    /\ chunkSize = 0
    /\ FetchIdle
    /\ PairIdle /\ LoaderIdle /\ PeekIdle

ApplyNormalize ==
    /\ res.fn = "none"
    /\ res' = [fn |-> "normalizeMediaInfo", times |-> 1,
               out |-> normalizeMediaInfo(arg), once |-> normalizeMediaInfo(arg)]
    /\ UNCHANGED <<arg, fetchVars, pairVars, loaderVars, peekVars>>

\* The result is normalized once more
ApplyNormalizeAgain ==
    /\ res.fn = "normalizeMediaInfo"
    /\ res.times = 1
    /\ res' = [res EXCEPT !.times = 2, !.out = normalizeMediaInfo(res.out)]
    /\ UNCHANGED <<arg, fetchVars, pairVars, loaderVars, peekVars>>

NextJson == ApplyNormalize \/ ApplyNormalizeAgain

SpecJson == InitJson /\ [][NextJson]_vars

(***************************************************************************)
(* Properties of normalizeMediaInfo (specification SpecJson).              *)
(***************************************************************************)
RECURSIVE HasWrapper(_)
\* Some object of the value has a '#value' key whose value is defined
HasWrapper(v) ==
    \/ v.t = "object" /\ DefinedValueAt(v) # {}
    \/ \E i \in DOMAIN v.kids : HasWrapper(v.kids[i].v)

\* The '#value' of some wrapper of the value is itself a value that holds a
\* wrapper
RECURSIVE HasNestedWrapper(_)
HasNestedWrapper(v) ==
    \/ /\ v.t = "object" /\ DefinedValueAt(v) # {}
       /\ HasWrapper(v.kids[MinOf(DefinedValueAt(v))].v)
    \/ \E i \in DOMAIN v.kids : HasNestedWrapper(v.kids[i].v)

\* C27: the result of normalizeMediaInfo holds no object with a defined
\* '#value' key, and normalizing the result again gives the same value.
C27_FullyUnwrapped ==
    res.fn = "normalizeMediaInfo" =>
        /\ ~HasWrapper(res.once)
        /\ res.times = 2 => res.out = res.once

(***************************************************************************)
(* Archive peek (media-utils.ts, lines 432-599).  The buffer is the        *)
(* sequence of its bytes; the byte at JavaScript index i is buffer[i + 1]. *)
(* TextDecoder is modelled for NUL and printable ASCII, which is what the  *)
(* names of the model's archives are made of.                              *)
(***************************************************************************)
byteLength == Len(buffer)

\* buffer[i]: undefined (-1 here) outside the buffer
At(i) == IF i >= 0 /\ i < byteLength THEN buffer[i + 1] ELSE -1

\* buffer.subarray(begin, end): a negative index counts from the end, both
\* are clamped to the buffer
Clamp(i) == IF i < 0
            THEN (IF byteLength + i < 0 THEN 0 ELSE byteLength + i)
            ELSE (IF i > byteLength THEN byteLength ELSE i)
subarray(begin, end) ==
    IF Clamp(end) <= Clamp(begin) THEN <<>>
    ELSE SubSeq(buffer, Clamp(begin) + 1, Clamp(end))

\* new TextDecoder().decode(bytes), one character per byte
Char(b) == IF b \in 32..126 THEN S_ascii[b - 31]
           ELSE IF b = 0 THEN "NUL" ELSE "other"
decode(bytes) == [i \in DOMAIN bytes |-> Char(bytes[i])]

\* name.endsWith('/')
EndsWithSlash(s) == s # <<>> /\ s[Len(s)] = "/"

\* view.getUint16(at, true) and view.getUint32(at, true)
getUint16(at) == At(at) + 256 * At(at + 1)
getUint32(at) == At(at) + 256 * At(at + 1) + 65536 * At(at + 2) + 16777216 * At(at + 3)

\* Math.ceil(size / 512)
CeilBlocks(size) == 0 - ((0 - size) \div 512)

RECURSIVE OctalValue(_)
OctalValue(ds) ==
    IF ds = <<>> THEN 0
    ELSE 8 * OctalValue(SubSeq(ds, 1, Len(ds) - 1)) + DigitValue(ds[Len(ds)])

\* parseInt(sizeStr, 8) || 0: an optional sign, then the leading run of
\* octal digits; 0 when there is none
parseIntOctalOrZero(s) ==
    LET neg    == Len(s) >= 1 /\ s[1] = "-"
        body   == IF Len(s) >= 1 /\ s[1] \in {"-", "+"} THEN SubSeq(s, 2, Len(s)) ELSE s
        octal  == {"0", "1", "2", "3", "4", "5", "6", "7"}
        n      == RunEnd(body, 1, (Range(S_ascii) \cup {"NUL", "other"}) \ octal)
    IN  IF n = 0 THEN 0
        ELSE IF neg THEN 0 - OctalValue(SubSeq(body, 1, n))
        ELSE OctalValue(SubSeq(body, 1, n))

(***************************************************************************)
(* The archives the walk is applied to, built from their entries.          *)
(***************************************************************************)
Byte(c) == (CHOOSE i \in DOMAIN S_ascii : S_ascii[i] = c) + 31
Bytes(s) == [i \in DOMAIN s |-> Byte(s[i])]
Zeros(n) == [i \in 1..n |-> 0]
Filler(n) == [i \in 1..n |-> 120]
LE16(n) == <<n % 256, n \div 256>>
LE32(n) == <<n % 256, (n \div 256) % 256, (n \div 65536) % 256, n \div 16777216>>

RECURSIVE Repeat(_, _)
Repeat(s, n) == IF n = 0 THEN <<>> ELSE s \o Repeat(s, n - 1)

S_movie == <<"m","o","v","i","e",".","m","k","v">>
S_dir == <<"d","i","r","/">>
S_sub == <<"d","i","r","/","s","u","b","/">>
S_dirMovie == <<"d","i","r","/","m","o","v","i","e",".","m","k","v">>
S_ustar == <<"u","s","t","a","r">>
S_longLink == <<".","/",".","/","@","L","o","n","g","L","i","n","k">>
\* A path of 114 characters; its first 100 do not end in a slash
S_longName == Repeat(<<"s","e","a","s","o","n","/">>, 15) \o S_movie
S_longDir == Repeat(<<"s","e","a","s","o","n","/">>, 15)

\* A ZIP local file header (30 bytes), the name, the extra field and what
\* follows the record in the file
ZipRecord(name, flag, compressedSize, extra, follows) ==
    ZIP_SIG \o <<20, 0>> \o LE16(flag) \o LE16(IF compressedSize > 0 THEN 8 ELSE 0)
        \o Zeros(8) \o LE32(compressedSize) \o LE32(compressedSize)
        \o LE16(Len(name)) \o LE16(extra) \o Bytes(name) \o Zeros(extra) \o follows

\* The data descriptor that follows the data of an entry with bit 3 set
DataDescriptor == <<80, 75, 7, 8>> \o Zeros(12)
\* A central directory header: where the local records end
CentralDirectory == <<80, 75, 1, 2>> \o Zeros(42)

\* An entry of an archive of the model: its bytes, its name, whether it is
\* a file, the bytes of it the walk needs inside the buffer to name it,
\* and whether the walk's arithmetic lands on the record that follows it
Entry(bytes, name, file, head, sound) ==
    [bytes |-> bytes, name |-> name, file |-> file, head |-> head, sound |-> sound]

ZipFile(name, flag, csize) ==
    Entry(ZipRecord(name, flag, csize, 0, Filler(csize)), name, TRUE,
          30 + Len(name), TRUE)
ZipDir(name, flag, extra) ==
    Entry(ZipRecord(name, flag, 0, extra, <<>>), name, FALSE, 30 + Len(name), TRUE)
\* A directory with bit 3 set that is followed by its data descriptor
ZipDirDescriptor(name) ==
    Entry(ZipRecord(name, 8, 0, 0, DataDescriptor), name, FALSE, 30 + Len(name), FALSE)
\* A directory whose header states a size of 7F000000 bytes, which
\* reaches far past the end of the buffer
ZipDirHuge(name) ==
    Entry(ZipRecord(name, 0, 2130706432, 0, <<>>), name, FALSE, 30 + Len(name), FALSE)
ZipEnd == Entry(CentralDirectory, <<>>, FALSE, 46, FALSE)

\* A TAR header block: the name at 0, the size in octal at 124, the type
\* flag at 156, the magic at 257
TarHeader(name, typeFlag, sizeStr) ==
    Bytes(name) \o Zeros(100 - Len(name)) \o Zeros(24)
        \o Bytes(sizeStr) \o Zeros(12 - Len(sizeStr)) \o Zeros(20)
        \o Bytes(<<typeFlag>>) \o Zeros(100) \o Bytes(S_ustar) \o Zeros(250)

\* n bytes of data, padded to whole blocks
TarData(bytes) == bytes \o Zeros((512 - (Len(bytes) % 512)) % 512)

S_size0 == <<"0","0","0","0","0","0","0","0","0","0","0">>
S_size5 == <<"0","0","0","0","0","0","0","0","0","0","5">>
S_size1000 == <<"0","0","0","0","0","0","0","1","7","5","0">>
\* 115 = 114 characters and the terminating NUL
S_size115 == <<"0","0","0","0","0","0","0","0","1","6","3">>
S_sizeMinus1000 == <<"-","1","0","0","0">>
S_sizeMinus4000 == <<"-","4","0","0","0">>

TarFile(name, typeFlag, sizeStr, n) ==
    Entry(TarHeader(name, typeFlag, sizeStr) \o TarData(Filler(n)), name, TRUE, 512, TRUE)
TarDir(name, sizeStr) ==
    Entry(TarHeader(name, "5", sizeStr), name, FALSE, 512,
          sizeStr = S_size0)
\* A pax extended header: neither a file nor a directory
TarOther(name, n) ==
    Entry(TarHeader(name, "x", S_size5) \o TarData(Filler(n)), name, FALSE, 512, TRUE)
\* A GNU long-name block with its payload, and the entry it names, whose
\* own name field holds the first 100 characters
TarLong(name, typeFlag, file) ==
    Entry(TarHeader(S_longLink, "L", S_size115) \o TarData(Bytes(name) \o <<0>>)
            \o TarHeader(SubSeq(name, 1, 100), typeFlag, S_size5) \o TarData(Filler(5)),
          name, file, 1536, TRUE)
TarZeroBlock == Entry(Zeros(512), <<>>, FALSE, 512, TRUE)

ZipArchives == {
    <<ZipFile(S_movie, 0, 5)>>,
    <<ZipFile(S_movie, 8, 0)>>,
    <<ZipDir(S_dir, 0, 0), ZipFile(S_dirMovie, 0, 5)>>,
    <<ZipDir(S_dir, 8, 0), ZipFile(S_dirMovie, 8, 0)>>,
    <<ZipDir(S_dir, 0, 4), ZipDir(S_sub, 0, 0), ZipFile(S_dirMovie, 0, 5)>>,
    <<ZipDir(S_dir, 0, 0), ZipEnd>>,
    <<ZipDir(S_dir, 0, 0)>>,
    <<ZipDirDescriptor(S_dir), ZipFile(S_dirMovie, 0, 5)>>,
    <<ZipDirHuge(S_dir), ZipFile(S_dirMovie, 0, 5)>> }

TarArchives == {
    <<TarFile(S_movie, "0", S_size5, 5)>>,
    <<TarFile(S_movie, "0", S_size1000, 1000)>>,
    <<TarDir(S_dir, S_size0), TarFile(S_dirMovie, "0", S_size5, 5)>>,
    <<TarDir(S_dir, S_size0), TarZeroBlock, TarFile(S_dirMovie, "0", S_size5, 5)>>,
    <<TarOther(S_dir, 5), TarFile(S_dirMovie, "0", S_size5, 5)>>,
    <<TarLong(S_longName, "0", TRUE)>>,
    <<TarDir(S_dir, S_size0), TarLong(S_longName, "0", TRUE)>>,
    <<TarLong(S_longDir, "5", FALSE), TarFile(S_dirMovie, "0", S_size5, 5)>>,
    <<TarDir(S_dir, S_size0)>>,
    <<TarDir(S_dir, S_sizeMinus1000), TarFile(S_dirMovie, "0", S_size5, 5)>>,
    <<TarDir(S_dir, S_sizeMinus4000), TarFile(S_dirMovie, "0", S_size5, 5)>> }

\* Buffers that are no archive: a Matroska header, zeros, the magic at
\* another offset, the ZIP signature alone
RawBuffers == {
    <<Entry(<<26, 69, 223, 163>> \o Filler(300), <<>>, FALSE, 0, FALSE)>>,
    <<Entry(Zeros(600), <<>>, FALSE, 0, FALSE)>>,
    <<Entry(Zeros(256) \o Bytes(S_ustar) \o Zeros(300), <<>>, FALSE, 0, FALSE)>>,
    <<Entry(ZIP_SIG, <<>>, FALSE, 0, FALSE)>>,
    <<Entry(<<>>, <<>>, FALSE, 0, FALSE)>> }

RECURSIVE Concat(_)
Concat(entries) ==
    IF entries = <<>> THEN <<>> ELSE Head(entries).bytes \o Concat(Tail(entries))

\* How many bytes the fetch cut off the end of the archive
Cuts == {0, 1, 5, 20, 520}

PeekInputs ==
    [format : {"zip"}, entries : ZipArchives, cut : Cuts]
    \cup [format : {"tar"}, entries : TarArchives, cut : Cuts]
    \cup [format : {"raw"}, entries : RawBuffers, cut : {0}]

BufferOfInput(in) ==
    LET all == Concat(in.entries)
    IN  SubSeq(all, 1, IF in.cut >= Len(all) THEN 0 ELSE Len(all) - in.cut)

(***************************************************************************)
(* extractFirstFileFromArchive as a state machine: the dispatch, then one  *)
(* action per evaluation of a walk's loop condition and body.  iter counts *)
(* the iterations; lo and hi are the lowest and the highest index of the   *)
(* buffer read so far (history).  null is <<>>, a string s is <<s>>.       *)
(***************************************************************************)
\* The most iterations of a walk the model follows
MaxIter == 6

\* The indices from..to (to >= from) have been read
Touch(w, from, to) ==
    [w EXCEPT !.lo = IF from < @ THEN from ELSE @,
              !.hi = IF to > @ THEN to ELSE @]

InitPeek ==
    /\ arg = <<>>
    /\ res = [fn |-> "none"]
    /\ pc = "idle"
    /\ initialUrl = <<>>
    /\ chunkSize = 0
    /\ FetchIdle
    /\ PairIdle /\ LoaderIdle
    /\ \E in \in PeekInputs :
         /\ buffer = BufferOfInput(in)
         /\ walk = [fn |-> "none", input |-> in, offset |-> 0,
                    nextNameOverride |-> <<>>, iter |-> 0, done |-> FALSE,
                    out |-> <<>>, lo |-> 0, hi |-> -1]

\* return value: the walk is over
Returns(w, value) == [w EXCEPT !.done = TRUE, !.out = value]

\* lines 434-440
StartsWithZipSignature ==
    /\ byteLength > 4
    /\ <<At(0), At(1), At(2), At(3)>> = <<80, 75, 3, 4>>

\* lines 446-449
HasUstarMagic == byteLength > 262 /\ decode(subarray(257, 262)) = S_ustar

\* lines 432-456
extractFirstFileFromArchive ==
    /\ walk.fn = "none"
    /\ ~walk.done
    /\ walk' =
         LET seen == IF byteLength > 4 THEN Touch(walk, 0, 3) ELSE walk
         IN  IF StartsWithZipSignature
             THEN [seen EXCEPT !.fn = "extractFirstFileFromZip"]
             ELSE IF HasUstarMagic
             THEN [Touch(seen, 257, 261) EXCEPT !.fn = "extractFirstFileFromTar"]
             ELSE Returns(IF byteLength > 262 THEN Touch(seen, 257, 261) ELSE seen, <<>>)
    /\ UNCHANGED <<urlVars, fetchVars, pairVars, loaderVars, buffer>>

\* A walk that takes every record's header as 30 bytes long
ZipAdvance_fixedHeader(off, headerSize, skipSize) == off + 30 + skipSize

\* line 510
ZipAdvance(off, headerSize, skipSize) == off + headerSize + skipSize

\* lines 466-512: one iteration of the ZIP walk, or its end
ZipIteration(w) ==
    LET off == w.offset
        generalPurposeFlag == getUint16(off + 6)
        compressedSize == getUint32(off + 18)
        fileNameLength == getUint16(off + 26)
        extraFieldLength == getUint16(off + 28)
        fileNameStart == off + 30
        fileName == decode(subarray(fileNameStart, fileNameStart + fileNameLength))
        hasDataDescriptor == (generalPurposeFlag \div 8) % 2 = 1
        skipSize == IF hasDataDescriptor THEN 0 ELSE compressedSize
        headerSize == 30 + fileNameLength + extraFieldLength
        header == Touch(w, off, off + 29)
        named == IF fileNameLength > 0
                 THEN Touch(header, fileNameStart, fileNameStart + fileNameLength - 1)
                 ELSE header
    IN  IF ~(off + 30 <= byteLength) THEN Returns(w, <<>>)
        ELSE IF <<At(off), At(off + 1), At(off + 2), At(off + 3)>>
                    # <<80, 75, 3, 4>>
        THEN Returns(Touch(w, off, off + 3), <<>>)
        ELSE IF fileNameStart + fileNameLength > byteLength THEN Returns(header, <<>>)
        ELSE IF ~EndsWithSlash(fileName) THEN Returns(named, <<fileName>>)
        ELSE [named EXCEPT !.offset = ZipAdvance(off, headerSize, skipSize)]

extractFirstFileFromZip ==
    /\ walk.fn = "extractFirstFileFromZip"
    /\ ~walk.done
    /\ walk.iter < MaxIter
    /\ walk' = [ZipIteration(walk) EXCEPT !.iter = @ + 1]
    /\ UNCHANGED <<urlVars, fetchVars, pairVars, loaderVars, buffer>>

\* lines 521-534: the block at offset is all zeros
IsZeroBlock(off) == \A i \in 0..511 : At(off + i) = 0

\* The end of the run of bytes from `from`, before `limit`, that are not in
\* `stop`: the loops of lines 540 and 550-555 (undefined is not in stop)
ScanEnd(from, limit, stop) ==
    LET stops == {k \in from..(limit - 1) : At(k) \in stop}
    IN  IF stops = {} THEN limit ELSE MinOf(stops)

\* A long name that keeps the payload's padding
TrimTrailingNulls_none(bytes) == bytes

\* lines 570-574: the payload without its trailing NUL bytes
TrimTrailingNulls(bytes) ==
    LET kept == {k \in DOMAIN bytes : bytes[k] # 0}
    IN  IF kept = {} THEN <<>> ELSE SubSeq(bytes, 1, MaxOf(kept))

\* lines 563, 576 and 595-596
TarAdvance(off, size) == off + 512 + CeilBlocks(size) * 512

\* lines 519-598: one iteration of the TAR walk, or its end
TarIteration(w) ==
    LET off == w.offset
        nameEnd == ScanEnd(off, off + 100, {0})
        name == IF w.nextNameOverride # <<>> /\ w.nextNameOverride[1] # <<>>
                THEN w.nextNameOverride
                ELSE IF nameEnd > off THEN <<decode(subarray(off, nameEnd))>>
                ELSE w.nextNameOverride
        typeFlag == IF At(off + 156) = -1 THEN "NUL" ELSE Char(At(off + 156))
        sizeEnd == ScanEnd(off + 124, off + 136, {0, 32})
        sizeStr == decode(subarray(off + 124, sizeEnd))
        size == parseIntOctalOrZero(sizeStr)
        contentStart == off + 512
        contentEnd == contentStart + size
        block == Touch(w, off, off + 156)
        isDir == typeFlag = "5" \/ (name # <<>> /\ EndsWithSlash(name[1]))
        isFile == typeFlag \in {"0", "NUL", " "}
    IN  IF ~(off + 512 <= byteLength) THEN Returns(w, <<>>)
        ELSE IF IsZeroBlock(off)
        THEN [Touch(w, off, off + 511) EXCEPT !.offset = off + 512]
        ELSE IF typeFlag = "L"
        THEN [(IF contentEnd <= byteLength /\ size > 0
               THEN Touch(block, contentStart, contentEnd - 1) ELSE block)
                EXCEPT !.nextNameOverride =
                           IF contentEnd <= byteLength
                           THEN <<decode(TrimTrailingNulls(subarray(contentStart, contentEnd)))>>
                           ELSE @,
                       !.offset = TarAdvance(off, size)]
        ELSE IF ~isDir /\ isFile /\ name # <<>> /\ name[1] # <<>>
                /\ ~EndsWithSlash(name[1])
        THEN Returns(block, name)
        ELSE [block EXCEPT !.nextNameOverride = <<>>,
                           !.offset = TarAdvance(off, size)]

extractFirstFileFromTar ==
    /\ walk.fn = "extractFirstFileFromTar"
    /\ ~walk.done
    /\ walk.iter < MaxIter
    /\ walk' = [TarIteration(walk) EXCEPT !.iter = @ + 1]
    /\ UNCHANGED <<urlVars, fetchVars, pairVars, loaderVars, buffer>>

NextPeek ==
    extractFirstFileFromArchive \/ extractFirstFileFromZip \/ extractFirstFileFromTar

SpecPeek == InitPeek /\ [][NextPeek]_vars

(***************************************************************************)
(* Properties of the archive peek (specification SpecPeek).                *)
(***************************************************************************)
RECURSIVE StartOf(_, _)
\* The offset of the k-th entry in the archive
StartOf(entries, k) ==
    IF k <= 1 THEN 0 ELSE Len(entries[k - 1].bytes) + StartOf(entries, k - 1)

\* The first entry that is a file, or 0
FirstFile(entries) ==
    LET files == {k \in DOMAIN entries : entries[k].file}
    IN  IF files = {} THEN 0 ELSE MinOf(files)

\* The entries before the first file lead to it, and what the walk needs
\* of the first file lies inside the buffer
FirstFileInBuffer(in) ==
    LET k == FirstFile(in.entries)
    IN  /\ k # 0
        /\ \A j \in 1..(k - 1) : in.entries[j].sound
        /\ StartOf(in.entries, k) + in.entries[k].head <= byteLength

\* No file entry has its header and name inside the buffer
NoFileInBuffer(in) ==
    \A k \in DOMAIN in.entries :
        in.entries[k].file =>
            StartOf(in.entries, k) + in.entries[k].head > byteLength

LongNamed(in) ==
    /\ FirstFile(in.entries) # 0
    /\ Len(in.entries[FirstFile(in.entries)].name) > 100

\* C24: on a TAR buffer in which a GNU long-name block that lies inside
\* the buffer precedes the first file entry, the walk returns the long
\* name of the block's payload without its trailing NUL bytes, not the 100
\* bytes of the name field of the header that follows.
C24_TarLongName ==
    (walk.fn = "extractFirstFileFromTar" /\ walk.done
        /\ FirstFileInBuffer(walk.input) /\ LongNamed(walk.input)) =>
        /\ walk.out = <<S_longName>>
        /\ walk.out # <<SubSeq(S_longName, 1, 100)>>
        /\ Len(walk.out[1]) = 114

\* The walk skipped a directory, read the long-name block, and returned
\* the long name at the header that follows the block
C24_Witness ==
    /\ walk.fn = "extractFirstFileFromTar"
    /\ walk.done
    /\ walk.iter = 3
    /\ walk.offset = 512 + 1024
    /\ walk.nextNameOverride = <<S_longName>>
    /\ walk.out = <<S_longName>>

\* C26: extractFirstFileFromArchive returns null for a buffer that has
\* neither the ZIP signature at 0 nor 'ustar' at 257, and null when no file
\* entry has its header and name inside the buffer; no index it reads is
\* outside the buffer.
C26_NullAndInBounds ==
    /\ walk.fn # "none" \/ walk.done =>
          /\ walk.lo >= 0
          /\ walk.hi < byteLength
    /\ walk.done =>
          /\ walk.input.format = "raw" => walk.out = <<>>
          /\ NoFileInBuffer(walk.input) => walk.out = <<>>

\* C28: every iteration of the ZIP walk and of the TAR walk returns, or
\* moves the offset forward by at least 30 (ZIP) or 512 (TAR) bytes.
C28_EveryIterationAdvances ==
    [][walk'.iter = walk.iter + 1 =>
          \/ walk'.done
          \/ walk'.offset >= walk.offset
                + (IF walk.fn = "extractFirstFileFromZip" THEN 30 ELSE 512)]_vars


(***************************************************************************)
(* The analyze request handler, resource.analyze.ts lines 8-161.  loader   *)
(* is suspended at three awaits: the siteverify request of line 65, the    *)
(* call of fetchMediaChunk at line 114 and the call of analyzeMediaBuffer  *)
(* at line 123.  The call of line 114 runs fetchMediaChunk's own steps     *)
(* Rewrite and Validate; what follows the validation (lines 36-286 of      *)
(* media-fetch.server.ts, the subject of Spec) is taken here as one step   *)
(* that either returns a chunk or throws.  analyzeSchema is imported from  *)
(* ~/lib/schemas: request.parsed is what safeParse answered.               *)
(***************************************************************************)
Tokens == {"none", "localhost-mock-token", "other"}
LoaderUrls == PipelineUrls
ParseResults ==
    {[success |-> FALSE, url |-> <<>>]}
    \cup {[success |-> TRUE, url |-> u] : u \in LoaderUrls}
ThrownByFetch == {"FetchRejected", "Webpage", "NotFound", "AccessDenied"}

\* lines 9-22: turnstile is ENABLE_TURNSTILE === 'true' && secretKey, dev is
\* import.meta.env.DEV, token the CF-Turnstile-Response header
InitLoader ==
    /\ arg = <<>>
    /\ res = [fn |-> "none"]
    /\ pc = "idle"
    /\ initialUrl = <<>>
    /\ chunkSize = 10 * 1024 * 1024
    /\ FetchIdle
    /\ PairIdle /\ PeekIdle
    /\ request \in [turnstile : BOOLEAN, dev : BOOLEAN, token : Tokens,
                    parsed : ParseResults]
    /\ loader = [at |-> "start", status |-> 200, severity |-> "INFO",
                 response |-> <<>>, logs |-> <<>>]

\* lines 145-160: the finally block calls log with the locals as they are
\* when the try or the catch block has evaluated its return statement
FinallyBlock(l) ==
    [l EXCEPT !.logs = Append(@, [severity |-> l.severity,
                                  status |-> l.status,
                                  decided |-> l.response]),
              !.at = "returned"]

\* A catch block that leaves the status as the try block set it
CatchStatus_unset(st) == st

\* line 130
CatchStatus(st) == 500

\* return Response.json(body, {status: st}) inside try or catch, followed
\* by the finally block
ReturnResponse(l, st) == FinallyBlock([l EXCEPT !.response = <<st>>])

\* lines 40-50, 75-84 and 97-101: a refusal sets status and severity, then
\* returns the response of the same status
Refuse(l, st) ==
    ReturnResponse([l EXCEPT !.status = st, !.severity = "WARNING"], st)

\* lines 129-144
CatchBlock(l) ==
    ReturnResponse([l EXCEPT !.status = CatchStatus(l.status),
                             !.severity = "ERROR"], 500)

\* lines 90-114: the input check, then the call of fetchMediaChunk
ValidateInput(l) ==
    IF ~request.parsed.success
    THEN Refuse(l, 400)
    ELSE [l EXCEPT !.at = "awaitFetch"]

fetchLocals == <<chunkSize, targetUrl, isGoogleDrive, validated, steps, requests,
                 firstHead, probeGetRes, headRes, probeMethod, fileSize,
                 filename, failure, offset, tempBuffer, net, zip, delivered,
                 result, err>>

\* The call of line 114 starts a run of fetchMediaChunk on the parsed URL
CallFetch ==
    IF loader'.at = "awaitFetch"
    THEN pc' = "start" /\ initialUrl' = request.parsed.url
    ELSE UNCHANGED <<pc, initialUrl>>

\* lines 24-114, up to the first await reached
LoaderEnter ==
    /\ loader.at = "start"
    /\ loader' =
         IF request.turnstile
         THEN IF request.token = "none"
              THEN Refuse(loader, 403)
              ELSE IF request.token = "localhost-mock-token" \/ request.dev
                   THEN ValidateInput(loader)
                   ELSE [loader EXCEPT !.at = "awaitVerify"]
         ELSE ValidateInput(loader)
    /\ CallFetch
    /\ UNCHANGED <<urlVars, fetchLocals, pairVars, peekVars, request>>

\* lines 65-114: the siteverify request settles; a rejected fetch and a
\* body that is not JSON throw into the catch block
RecvVerify ==
    /\ loader.at = "awaitVerify"
    /\ \E outcome \in {"success", "failed", "thrown"} :
         loader' = CASE outcome = "thrown" -> CatchBlock(loader)
                   []   outcome = "failed" -> Refuse(loader, 403)
                   []   OTHER -> ValidateInput(loader)
    /\ CallFetch
    /\ UNCHANGED <<urlVars, fetchLocals, pairVars, peekVars, request>>

\* media-fetch.server.ts lines 36-286, after the validation passed: the run
\* returns a chunk or throws one of its errors
FetchSettle ==
    /\ loader.at = "awaitFetch"
    /\ pc = "validated"
    /\ \/ /\ pc' = "done"
          /\ result' = [returned |-> TRUE]
          /\ failure' = failure
       \/ /\ pc' = "failed"
          /\ \E k \in ThrownByFetch : failure' = [kind |-> k]
          /\ result' = result
    /\ UNCHANGED <<urlVars, pairVars, loaderVars, peekVars, initialUrl, chunkSize,
                   targetUrl, isGoogleDrive, validated, steps, requests,
                   firstHead, probeGetRes, headRes, probeMethod, fileSize,
                   filename, offset, tempBuffer, net, zip, delivered, err>>

\* lines 109-123: the await of line 114 settles; a thrown error, InvalidURL
\* among them, goes to the catch block
LoaderResume ==
    /\ loader.at = "awaitFetch"
    /\ pc \in {"done", "failed"}
    /\ loader' = IF pc = "failed"
                 THEN CatchBlock(loader)
                 ELSE [loader EXCEPT !.at = "awaitAnalyze"]
    /\ UNCHANGED <<urlVars, fetchVars, pairVars, peekVars, request>>

\* lines 122-128: analyzeMediaBuffer settles; Response.json({results})
\* carries the default status 200
RecvAnalysis ==
    /\ loader.at = "awaitAnalyze"
    /\ \/ loader' = ReturnResponse(loader, 200)
       \/ loader' = CatchBlock(loader)
    /\ UNCHANGED <<urlVars, fetchVars, pairVars, peekVars, request>>

NextLoader ==
    \/ LoaderEnter
    \/ RecvVerify
    \/ Rewrite
    \/ Validate
    \/ FetchSettle
    \/ LoaderResume
    \/ RecvAnalysis

SpecLoader == InitLoader /\ [][NextLoader]_vars

\* C21: when validateUrl rejects the target URL with InvalidURL, the
\* response of the request handler has status 403, not a server-error
\* status.
C21_InvalidUrlAnswered403 ==
    loader.at = "returned" /\ failure.kind = "InvalidURL"
        => loader.response = <<403>>

\* C30: on every path through loader, log is called exactly once, when the
\* response is decided and not before, and the httpRequest.status it is
\* given is the status of the response returned.
C30_LoggedOnceWithResponseStatus ==
    /\ Len(loader.logs) <= 1
    /\ loader.at # "returned" => loader.logs = <<>> /\ loader.response = <<>>
    /\ loader.at = "returned" =>
         /\ Len(loader.logs) = 1
         /\ Len(loader.response) = 1
         /\ loader.logs[1].decided = loader.response
         /\ loader.logs[1].status = loader.response[1]

\* A request whose URL validateUrl rejected: the catch block answered 500
\* and logged 500
C30_Witness ==
    /\ loader.at = "returned"
    /\ failure.kind = "InvalidURL"
    /\ loader.response = <<500>>
    /\ loader.logs = <<[severity |-> "ERROR", status |-> 500, decided |-> <<500>>]>>

=============================================================================
